---- MODULE Spec2Model ----
(***************************************************************************)
(* SpectrumVis (sdrbase/dsp/spectrumvis.cpp): the real-time spectrum       *)
(* pipeline.  Two threads are modelled: the producer thread that calls the *)
(* feed entry points and the control thread that runs handleMessage.       *)
(* Samples are symbolic: <<id, scalef>> is input sample number id divided  *)
(* by scalef; id 0 is the zero sample the vectors are constructed with.    *)
(* A power value is <<frame, bin>>: the power of bin `bin` of the frame-th *)
(* transform (bin -1: the zero padding of the raw overload).               *)
(* m_fftBuffer and m_powerSpectrum are vectors of MAX_FFT_SIZE elements;   *)
(* they are kept as the function from the indices that hold a non-zero     *)
(* element to that element, and every other index reads as zero (at).      *)
(***************************************************************************)
EXTENDS Integers, Sequences, FiniteSets, TLC

MAX_FFT_SIZE == 4096
MIN_FFT_SIZE == 64
MAX_OVERLAP == 100
MOVING_AVG_CAP == 1000

\* bounds of the model
MaxCtl == 2        \* messages handled by the control thread
MaxFeeds == 2      \* feed calls made by the producer thread
MaxFrames == 4     \* frames stored (transforms and raw frames)

AvgModeNone == "AvgModeNone"
AvgModeMoving == "AvgModeMoving"
AvgModeFixed == "AvgModeFixed"
AvgModeMax == "AvgModeMax"

VARIABLES
    m_running, m_fft, m_fftEngineSequence, m_fftBuffer, m_powerSpectrum,
    m_fftBufferFill, m_needMoreSamples, m_scalef, m_glSpectrum,
    m_centerFrequency, m_sampleRate, m_ofs, m_powFFTDiv, m_mutex,
    m_settings, m_window, m_overlapSize, m_refillSize,
    m_movingAverage, m_fixedAverage, m_max, m_wsSpectrum,
    fftFactory,    \* engines in use: set of <<size, sequence>>
    fftIn,         \* the engine's input region after the last window.apply
    nFrames,       \* transforms run so far (numbers the frames)
    glSink,        \* display sink: newSpectrum calls received, last size
    wsSink,        \* network sink: newSpectrum calls received, last arguments
    pcFeed,        \* producer thread: "idle" or "loop" (inside the while loop)
    feedArgs,      \* begin/end/positiveOnly of the feed call in progress
    streamPos,     \* input samples taken by the streaming feed so far (numbers the samples)
    nFeeds,        \* feed calls made
    pcCtl,         \* control thread: "idle", "locked", "wsReopen"
    ctlMsg,        \* message being handled by the control thread
    nCtl,          \* messages handled
    call,          \* history: the last feed call: its arguments, the fill pointer, settings
                   \*          and display count it started from, and what it did
    pending,       \* history: ids appended to the staging buffer since the last frame / fill reset
    rebuilt,       \* history: what the last applySettings rebuilt
    lastApply,     \* history: arguments of the last completed applySettings
    lastFrame,     \* history: the last frame transformed by the streaming feed
    epoch,         \* history: streamPos at the last fill reset / fftSize change, frames since,
                   \*          whether the fftSize change came mid-frame, and the frames
                   \*          transformed / published since the accumulators were last resized
    heapOverrun,   \* history: feed has written past the end of m_fftBuffer
    fir,           \* the ICFIR stage: its fields, p the engine it points to (0: no stage)
    firHeap,       \* the FIRCORE engines alive, deletions made, deletion of a dead engine
    firMem,        \* the sample buffers in / out point into
    firLast,       \* history: the last operation on the stage, operations made, the
                   \*          magnitude array A of the last impulse synthesis
    adsbSettings,  \* ADSBDemodWorker::m_settings
    adsbSocket,    \* ADSBDemodWorker::m_socket: open, packets written, the last packet
    adsbLast       \* history: the last handleADSB call: its arguments, signalStrength,
                   \*          the bytes stored through p in order, how it ended

pipeVars == <<m_fftBuffer, m_fftBufferFill, m_needMoreSamples, m_powerSpectrum,
              m_movingAverage, m_fixedAverage, m_max, fftIn, nFrames>>
confVars == <<m_settings, m_fft, m_fftEngineSequence, m_window, m_overlapSize,
              m_refillSize, m_ofs, m_powFFTDiv, fftFactory>>
sinkVars == <<glSink, wsSink>>
histVars == <<call, pending, rebuilt, lastApply, lastFrame, epoch, heapOverrun>>
svVars == <<m_running, m_fft, m_fftEngineSequence, m_fftBuffer, m_powerSpectrum,
            m_fftBufferFill, m_needMoreSamples, m_scalef, m_glSpectrum,
            m_centerFrequency, m_sampleRate, m_ofs, m_powFFTDiv, m_mutex,
            m_settings, m_window, m_overlapSize, m_refillSize,
            m_movingAverage, m_fixedAverage, m_max, m_wsSpectrum,
            fftFactory, fftIn, nFrames, glSink, wsSink,
            pcFeed, feedArgs, streamPos, nFeeds, pcCtl, ctlMsg, nCtl,
            call, pending, rebuilt, lastApply, lastFrame, epoch, heapOverrun>>
firVars == <<fir, firHeap, firMem, firLast>>
adsbVars == <<adsbSettings, adsbSocket, adsbLast>>
vars == <<svVars, firVars, adsbVars>>

----------------------------------------------------------------------------
\* GLSpectrumSettings as consumed by SpectrumVis

DefaultSettings ==
    [m_fftSize |-> 1024, m_fftOverlap |-> 0, m_fftWindow |-> "Hanning",
     m_averagingIndex |-> 0, m_averagingMode |-> AvgModeNone,
     m_refLevel |-> 0, m_linear |-> FALSE, m_ssb |-> FALSE, m_usb |-> TRUE,
     m_wsSpectrumAddress |-> "127.0.0.1", m_wsSpectrumPort |-> 8887]

RECURSIVE Pow10(_)
Pow10(e) == IF e <= 0 THEN 1 ELSE 10 * Pow10(e - 1)

\* the averaging amounts 1, 2, 5, 10, 20, 50, 100, ... by index
getAveragingValue(averagingIndex, averagingMode) ==
    IF averagingIndex <= 0 THEN 1
    ELSE LET v == averagingIndex - 1
             x == IF v % 3 = 0 THEN 2 ELSE IF v % 3 = 1 THEN 5 ELSE 10
         IN  x * Pow10(v \div 3)

\* the settings the control thread is asked to apply (requests, not yet clamped)
Cfg(size, ovl, win, idx, mode, lin) ==
    [DefaultSettings EXCEPT !.m_fftSize = size, !.m_fftOverlap = ovl,
                            !.m_fftWindow = win, !.m_averagingIndex = idx,
                            !.m_averagingMode = mode, !.m_linear = lin]

Cfgs ==
    { Cfg(64, 0, "Hanning", 0, AvgModeNone, FALSE),
      Cfg(64, 25, "Hanning", 0, AvgModeNone, FALSE),
      Cfg(64, 50, "Hanning", 0, AvgModeNone, FALSE),
      Cfg(10, -5, "Rectangle", 1, AvgModeFixed, TRUE),
      [Cfg(128, 0, "Hanning", 1, AvgModeMax, FALSE) EXCEPT !.m_wsSpectrumPort = 8888],
      Cfg(5000, 120, "Hanning", 1, AvgModeMoving, FALSE) }

\* the requests that are also sent with force set
ForcedCfgs ==
    { Cfg(64, 25, "Hanning", 0, AvgModeNone, FALSE),
      Cfg(10, -5, "Rectangle", 1, AvgModeFixed, TRUE),
      Cfg(5000, 120, "Hanning", 1, AvgModeMoving, FALSE) }

\* the requests the full specification sends (force clear)
PlainCfgs ==
    { Cfg(64, 0, "Hanning", 0, AvgModeNone, FALSE),
      Cfg(10, -5, "Rectangle", 1, AvgModeFixed, TRUE) }

\* the requests of the averaging specification: one size, every averaging mode
AvgCfgs ==
    { Cfg(64, 0, "Hanning", 0, AvgModeNone, FALSE),
      Cfg(64, 0, "Hanning", 1, AvgModeMoving, FALSE),
      Cfg(64, 0, "Hanning", 1, AvgModeFixed, FALSE),
      Cfg(64, 0, "Hanning", 1, AvgModeMax, FALSE),
      Cfg(10, 0, "Hanning", 2, AvgModeFixed, TRUE),
      Cfg(5000, 0, "Hanning", 10, AvgModeMoving, FALSE) }

ForcedAvgCfgs ==
    { Cfg(64, 0, "Hanning", 1, AvgModeFixed, FALSE) }

\* the requests of the display specification: Fixed and Max averaging of amount 2, each
\* also with other display fields (linear, ssb, usb, refLevel)
DisplayCfgs ==
    { Cfg(64, 0, "Hanning", 1, AvgModeFixed, FALSE),
      [Cfg(64, 0, "Hanning", 1, AvgModeFixed, TRUE) EXCEPT
          !.m_ssb = TRUE, !.m_usb = FALSE, !.m_refLevel = -10],
      Cfg(64, 0, "Hanning", 1, AvgModeMax, FALSE),
      Cfg(64, 0, "Hanning", 1, AvgModeMax, TRUE) }

\* the requests of the odd-size specification: an even and an odd size the clamp admits
OddCfgs ==
    { Cfg(64, 0, "Hanning", 0, AvgModeNone, FALSE),
      Cfg(65, 0, "Hanning", 0, AvgModeNone, FALSE) }

\* <<length, positiveOnly>> of its feed calls
OddFeeds == {<<65, FALSE>>, <<64, TRUE>>}

\* <<length, positiveOnly>> of the feed calls of the averaging specification
AvgFeeds == {<<64, FALSE>>, <<128, TRUE>>}

ChunkLens == {32, 64}
FeedLens == {64}
TriggerLens == {32}
RawLens == {32}
Scalefs == {2}
Frequencies == {435000000}
SampleRates == {96000}
Addresses == {"0.0.0.0"}
Ports == {8889}

ZeroSample == <<0, 1>>
ZeroPower == <<0, 0>>

\* element j of a vector of MAX_FFT_SIZE elements constructed with zero
at(vector, j, zero) == IF j \in DOMAIN vector THEN vector[j] ELSE zero
sampleAt(buffer, j) == at(buffer, j, ZeroSample)
powerAt(power, j) == at(power, j, ZeroPower)

----------------------------------------------------------------------------
\* WDSP::ICFIR: the CIC-compensating FIR stage and its impulse synthesis

\* operations made on one stage, floats in a buffer
MaxFirOps == 3
FirBufLen == 8

FirOrders == 1..6
FirSizes == {2, 3}
FirRates == {8, 16}
FirCutoffs == {0, 1, 3}
FirBuffers == {"a", "b"}

\* magnitudes are kept as terms: zero, the compensated CIC magnitude at the sample
\* 2*ri/2 (times local_scale), and what the two transitions derive from it; for
\* DD*R > 1 distinct terms are distinct values
ZeroMag == [kind |-> "zero"]

\* 2 * ri at unique sample i, ri = i + offset, offset 0 for odd N and 0.5 for even N
riTwice(N, i) == 2 * i + (1 - ((N + 1) \div 2 - N \div 2))

\* fn <= ft, with fn = ri / (L * N), L = cicrate / runrate, ft = cutoff / cicrate
inBand(q, i) == riTwice(q.N, i) * q.runrate <= 2 * q.cutoff * q.N

u_samps(N) == (N + 1) \div 2
c_samps(q) == (q.cutoff * q.N) \div q.runrate + (q.N + 1) \div 2 - q.N \div 2
x_samps(q) == (q.xbw * q.N) \div q.runrate

\* sin(PI * DD * ft) == 0.0, the divisor of the peak-gain normalisation, ft = cutoff / cicrate
peakGainDivisorZero(q) == q.DD * q.cutoff = 0

\* local_scale = scale / pow(tmp, Pairs), tmp the peak gain: not a number when tmp is 0 / 0
local_scale(q) == IF peakGainDivisorZero(q) THEN "NaN" ELSE "finite"

\* if (fn == 0.0) tmp = 1.0
fnIsZero(q, i) == riTwice(q.N, i) = 0

\* sin(PI * fn / R) == 0.0, the divisor of the per-sample CIC ratio, 0 <= fn < R
cicDivisorZero(q, i) == riTwice(q.N, i) = 0

\* pow(tmp, Pairs) * local_scale, tmp = 1 where fn == 0
cicMag(q, i) ==
    [kind |-> "cic", ri2 |-> riTwice(q.N, i), unity |-> fnIsZero(q, i),
     local_scale |-> local_scale(q)]

\* xtype 0: in band the CIC magnitude, above it mag *= ft^4 / fn^4 (mag starts at 0)
RECURSIVE powerLawMag(_, _)
powerLawMag(q, i) ==
    IF inBand(q, i) THEN cicMag(q, i)
    ELSE LET mag == IF i = 0 THEN ZeroMag ELSE powerLawMag(q, i - 1) IN
         IF mag = ZeroMag THEN ZeroMag
         ELSE [kind |-> "rolloff", of |-> mag, ri2 |-> riTwice(q.N, i)]

raisedCosineMagShort(q, i) ==
    LET mag == IF c_samps(q) >= 1 THEN cicMag(q, c_samps(q) - 1) ELSE ZeroMag IN
    IF i < c_samps(q) THEN cicMag(q, i)
    ELSE IF i < c_samps(q) + x_samps(q)
        THEN IF mag = ZeroMag \/ i = c_samps(q) THEN mag
             ELSE [kind |-> "taper", of |-> mag, k |-> i - c_samps(q), x_samps |-> x_samps(q)]
    ELSE ZeroMag

\* xtype 1: below c_samps the CIC magnitude, then mag * xistion[i - c_samps] with
\* xistion[0] = 1, then 0
raisedCosineMag(q, i) ==
    LET mag == IF c_samps(q) >= 1 THEN cicMag(q, c_samps(q) - 1) ELSE ZeroMag IN
    IF i < c_samps(q) THEN cicMag(q, i)
    ELSE IF i <= c_samps(q) + x_samps(q)
        THEN IF mag = ZeroMag \/ i = c_samps(q) THEN mag
             ELSE [kind |-> "taper", of |-> mag, k |-> i - c_samps(q), x_samps |-> x_samps(q)]
    ELSE ZeroMag

uniqueMag(q, i) ==
    IF q.xtype = 0 THEN powerLawMag(q, i)
    ELSE IF q.xtype = 1 THEN raisedCosineMag(q, i)
    ELSE ZeroMag

mirrorOffsetTwo(N) == 2

\* the divisions of the magnitude computation whose divisor is zero: the peak gain, and
\* the CIC ratio of the unique samples it is evaluated for
zeroDivisors(q) ==
    (IF peakGainDivisorZero(q) THEN {<<"peak gain">>} ELSE {})
    \cup {<<"cic ratio", i>> : i \in {k \in 0..(u_samps(q.N) - 1) :
              /\ IF q.xtype = 0 THEN inBand(q, k) ELSE q.xtype = 1 /\ k < c_samps(q)
              /\ ~fnIsZero(q, k)
              /\ cicDivisorZero(q, k)}}

\* j of the mirroring loops: 2 for odd N, 1 for even N
mirrorOffset(N) == IF N % 2 = 1 THEN 2 ELSE 1

\* the array A of icfir_impulse: the unique samples, then A[i] = A[u_samps - j]
magnitudes(q) ==
    LET u == u_samps(q.N)
        src(i) == u - (mirrorOffset(q.N) + (i - u))
    IN  [i \in 0..(q.N - 1) |->
            IF i < u THEN uniqueMag(q, i)
            ELSE IF src(i) \in 0..(u - 1) THEN uniqueMag(q, src(i))
            ELSE [kind |-> "outside", index |-> src(i)]]

impulseLengthN(N) == N

\* _impulse.resize(2 * _N)
impulseLength(N) == 2 * N

\* icfir_impulse: the taps fir_fsamp leaves in _impulse (complex output)
icfir_impulse(q) ==
    [k \in 1..impulseLength(q.N) |-> [tap |-> k - 1, wintype |-> q.wintype]]

\* the arguments calc passes to icfir_impulse
impulseArgs(f) ==
    [N |-> f.nc, DD |-> f.DD, R |-> f.R, Pairs |-> f.Pairs, runrate |-> f.runrate,
     cicrate |-> f.cicrate, cutoff |-> f.cutoff, xtype |-> f.xtype, xbw |-> f.xbw,
     rtype |-> 1, scale |-> f.scale, wintype |-> f.wintype]

\* new FIRCORE(size, in, out, mp, impulse)
FIRCORE(size, in, out, mp, impulse) ==
    [size |-> size, in |-> in, out |-> out, mp |-> mp, impulse |-> impulse]

calcScaleOrder(f) == <<1, 2 * f.nc>>

\* scale = 1.0f / (float)(2 * size), as numerator and denominator
calcScale(f) == <<1, 2 * f.size>>

\* ICFIR::calc on stage f and heap h: scale = 1 / (2 * size), a new engine in p
calc(f, h) ==
    LET g == [f EXCEPT !.scale = calcScale(f)]
        id == h.next
    IN  [fir |-> [g EXCEPT !.p = id],
         heap |-> [h EXCEPT !.next = id + 1,
                            !.live = [k \in DOMAIN h.live \cup {id} |->
                                        IF k = id
                                            THEN FIRCORE(g.size, g.in, g.out, g.mp,
                                                         icfir_impulse(impulseArgs(g)))
                                            ELSE h.live[k]]],
         A |-> magnitudes(impulseArgs(g)),
         zeroDivisors |-> zeroDivisors(impulseArgs(g))]

decalcLeak(f, h) == h

\* ICFIR::decalc: delete p
decalc(f, h) ==
    IF f.p \in DOMAIN h.live
        THEN [h EXCEPT !.live = [k \in DOMAIN h.live \ {f.p} |-> h.live[k]],
                       !.deleted = @ + 1]
        ELSE [h EXCEPT !.doubleFree = TRUE]

\* no stage
NoFir == [p |-> 0]
EmptyHeap == [live |-> [k \in {} |-> 0], next |-> 1, deleted |-> 0, doubleFree |-> FALSE]
FirMemory == [b \in FirBuffers |-> [i \in 1..FirBufLen |-> <<b, i - 1>>]]
NoFirOp == [op |-> "none", n |-> 0, A |-> << >>, zeroDivisors |-> {}]

----------------------------------------------------------------------------
\* ADSBDemodWorker: Beast binary output of Mode-S frames

\* handleADSB and heartbeat calls made on one worker
MaxBeastCalls == 2

BEAST_ESC == 26

\* char beastBinary[2+6*2+1*2+14*2]
beastBinarySize == 2 + 6 * 2 + 1 * 2 + 14 * 2

\* dateTime.toMSecsSinceEpoch() as the 8 bytes of the qint64, most significant first:
\* a time in 2025, a time in the year 2879, a time 59 million years ahead
Timestamps ==
    { <<0, 0, 1, 154, 26, 26, 26, 26>>,
      <<0, 0, 26, 26, 26, 26, 26, 26>>,
      <<26, 26, 26, 26, 26, 26, 26, 26>> }

\* (char)(timestamp >> shift)
timestampByte(timestamp, shift) == timestamp[8 - shift \div 8]

\* 14-byte Mode-S frames: every byte the escape value, none, every second one
Frames ==
    { [i \in 1..14 |-> 26],
      [i \in 1..14 |-> 141],
      [i \in 1..14 |-> IF i % 2 = 0 THEN 26 ELSE 141] }

\* getPreambleCorrelationOnes() in halves: -1.5, 0, 0.5, 1, 1.5, 26, 26.5, 255, 255.5,
\* 256, 300
Correlations == {-3, 0, 1, 2, 3, 52, 53, 510, 511, 512, 600}

\* ADSBDemodWorker::escape: the bytes stored through p so far, c, and c again when it
\* is the escape value
escape(p, c) == IF c = BEAST_ESC THEN p \o <<c, BEAST_ESC>> ELSE p \o <<c>>

\* the worker as constructed; no packet yet
NoBeastCall ==
    [op |-> "none", n |-> 0, correlation |-> 0, timestamp |-> << >>, data |-> << >>,
     signalStrength |-> 0, stored |-> << >>, status |-> "none"]

AdsbInit ==
    /\ adsbSettings = [m_beastEnabled |-> FALSE]
    /\ adsbSocket = [open |-> FALSE, writes |-> 0, last |-> << >>]
    /\ adsbLast = NoBeastCall

----------------------------------------------------------------------------
\* FFTFactory (consumed): engines in use are <<size, sequence>> pairs

\* the engines other pipeline instances hold in the shared factory
OtherEngines == {<<64, 0>>}

\* the engines the shared factory can hand out; another two pipelines exhaust it
FactoryCapacity == 2
FullFactory == {<<64, 0>>, <<1024, 0>>}

engineAvailable(factory) == Cardinality(factory) < FactoryCapacity

\* the handle getEngine stores through its last argument: null when capacity is exhausted
getEngineHandle(factory, fftSize) ==
    IF engineAvailable(factory) THEN [valid |-> TRUE, size |-> fftSize]
                                ELSE [valid |-> FALSE, size |-> 0]

\* the sequence id getEngine returns (0 with a null handle)
getEngineSequence(factory, fftSize) ==
    IF ~engineAvailable(factory) THEN 0 ELSE
    CHOOSE n \in 0..Cardinality(factory) :
        /\ <<fftSize, n>> \notin factory
        /\ \A k \in 0..(n-1) : <<fftSize, k>> \in factory

getEngine(factory, fftSize) ==
    IF engineAvailable(factory)
        THEN factory \cup {<<fftSize, getEngineSequence(factory, fftSize)>>}
        ELSE factory

releaseEngine(factory, fftSize, sequence) ==
    factory \ {<<fftSize, sequence>>}

\* FixedAverage2D / Max2D / MovingAverage2D: size and frame counter
resizeAverage(width, size) ==
    [width |-> width, size |-> size, avgIndex |-> 0]

\* storeAndGetAvg / storeAndGetMax: is a result available for this frame
storeAndGet(acc) ==
    acc.size <= 1 \/ acc.avgIndex = acc.size - 1

\* nextAverage / nextMax of the fixed and max accumulators
nextAverage(acc) ==
    IF acc.avgIndex = acc.size - 1
        THEN [acc EXCEPT !.avgIndex = 0]
        ELSE [acc EXCEPT !.avgIndex = @ + 1]

nextMovingAverage(acc) ==
    [acc EXCEPT !.avgIndex = (@ + 1) % acc.size]

----------------------------------------------------------------------------
\* SpectrumVis::applySettings and the handlers it shares with handleMessage

clampFftSizeNoMax(n) ==
    IF n < MIN_FFT_SIZE THEN MIN_FFT_SIZE ELSE n

clampFftSize(n) ==
    IF n > MAX_FFT_SIZE THEN MAX_FFT_SIZE
    ELSE IF n < MIN_FFT_SIZE THEN MIN_FFT_SIZE
    ELSE n

clampOverlap(p) ==
    IF p > MAX_OVERLAP THEN MAX_OVERLAP
    ELSE IF p < 0 THEN 0
    ELSE p

\* setListeningAddress, setPort, and close + open when the socket is opened
handleConfigureWSSpectrum(ws, address, port) ==
    [ws EXCEPT !.address = address, !.port = port,
               !.reopened = IF ws.opened THEN @ + 1 ELSE @]

engineChanged(s, settings, force) ==
    clampFftSize(settings.m_fftSize) # s.m_settings.m_fftSize \/ force

windowChangedAny(s, settings, force) ==
    settings # s.m_settings \/ force

windowChanged(s, settings, force) ==
    \/ clampFftSize(settings.m_fftSize) # s.m_settings.m_fftSize
    \/ settings.m_fftWindow # s.m_settings.m_fftWindow
    \/ force

overlapChangedRaw(s, settings, force) ==
    \/ clampFftSize(settings.m_fftSize) # s.m_settings.m_fftSize
    \/ settings.m_fftOverlap # s.m_settings.m_fftOverlap
    \/ force

overlapChanged(s, settings, force) ==
    \/ clampFftSize(settings.m_fftSize) # s.m_settings.m_fftSize
    \/ clampOverlap(settings.m_fftOverlap) # s.m_settings.m_fftOverlap
    \/ force

averagingChangedNoMode(s, settings, force) ==
    \/ clampFftSize(settings.m_fftSize) # s.m_settings.m_fftSize
    \/ settings.m_averagingIndex # s.m_settings.m_averagingIndex
    \/ force

averagingChanged(s, settings, force) ==
    \/ clampFftSize(settings.m_fftSize) # s.m_settings.m_fftSize
    \/ settings.m_averagingIndex # s.m_settings.m_averagingIndex
    \/ settings.m_averagingMode # s.m_settings.m_averagingMode
    \/ force

wsChanged(s, settings, force) ==
    \/ settings.m_wsSpectrumAddress # s.m_settings.m_wsSpectrumAddress
    \/ settings.m_wsSpectrumPort # s.m_settings.m_wsSpectrumPort
    \/ force

overlapSizeOf(fftSize, overlapPercent) ==
    (fftSize * overlapPercent) \div 100

\* s: the members applySettings reads and writes; the result is s after the call
applySettings(s, settings, force) ==
    LET fftSize == clampFftSize(settings.m_fftSize)
        overlapPercent == clampOverlap(settings.m_fftOverlap)
        released == IF s.m_fft.valid
                        THEN releaseEngine(s.fftFactory, s.m_settings.m_fftSize, s.m_fftEngineSequence)
                        ELSE s.fftFactory
        averagingValue == getAveragingValue(settings.m_averagingIndex, settings.m_averagingMode)
        eng == engineChanged(s, settings, force)
        win == windowChanged(s, settings, force)
        ovl == overlapChanged(s, settings, force)
        avg == averagingChanged(s, settings, force)
        wsc == wsChanged(s, settings, force)
    IN  [ m_fft |-> IF eng THEN getEngineHandle(released, fftSize) ELSE s.m_fft,
          m_fftEngineSequence |-> IF eng THEN getEngineSequence(released, fftSize)
                                         ELSE s.m_fftEngineSequence,
          fftFactory |-> IF eng THEN getEngine(released, fftSize) ELSE s.fftFactory,
          m_ofs |-> IF eng THEN fftSize ELSE s.m_ofs,
          m_powFFTDiv |-> IF eng THEN fftSize * fftSize ELSE s.m_powFFTDiv,
          m_window |-> IF win THEN [type |-> settings.m_fftWindow, size |-> fftSize]
                              ELSE s.m_window,
          m_overlapSize |-> IF ovl THEN overlapSizeOf(fftSize, overlapPercent)
                                   ELSE s.m_overlapSize,
          m_refillSize |-> IF ovl THEN fftSize - overlapSizeOf(fftSize, overlapPercent)
                                  ELSE s.m_refillSize,
          m_fftBufferFill |-> IF ovl THEN overlapSizeOf(fftSize, overlapPercent)
                                     ELSE s.m_fftBufferFill,
          m_movingAverage |-> IF avg
              THEN resizeAverage(fftSize, IF averagingValue > MOVING_AVG_CAP
                                              THEN MOVING_AVG_CAP ELSE averagingValue)
              ELSE s.m_movingAverage,
          m_fixedAverage |-> IF avg THEN resizeAverage(fftSize, averagingValue)
                                    ELSE s.m_fixedAverage,
          m_max |-> IF avg THEN resizeAverage(fftSize, averagingValue) ELSE s.m_max,
          m_wsSpectrum |-> IF wsc
              THEN handleConfigureWSSpectrum(s.m_wsSpectrum, settings.m_wsSpectrumAddress,
                                             settings.m_wsSpectrumPort)
              ELSE s.m_wsSpectrum,
          m_settings |-> [settings EXCEPT !.m_fftSize = fftSize,
                                          !.m_fftOverlap = overlapPercent],
          pending |-> IF ovl THEN << >> ELSE s.pending,
          rebuilt |-> (IF eng /\ s.m_fft.valid THEN {"release"} ELSE {})
                      \cup (IF eng THEN {"engine"} ELSE {})
                      \cup (IF win THEN {"window"} ELSE {})
                      \cup (IF ovl THEN {"overlap"} ELSE {})
                      \cup (IF avg THEN {"averaging"} ELSE {})
                      \cup (IF wsc THEN {"wsSpectrum"} ELSE {}) ]

\* the members as the constructor's initialiser list leaves them
Constructed ==
    [ m_fft |-> [valid |-> FALSE, size |-> 0], m_fftEngineSequence |-> 0,
      fftFactory |-> OtherEngines, m_ofs |-> 0, m_powFFTDiv |-> 1,
      m_window |-> [type |-> "none", size |-> 0],
      m_overlapSize |-> 0, m_refillSize |-> 0, m_fftBufferFill |-> 0,
      m_movingAverage |-> resizeAverage(0, 0), m_fixedAverage |-> resizeAverage(0, 0),
      m_max |-> resizeAverage(0, 0),
      m_wsSpectrum |-> [address |-> "127.0.0.1", port |-> 8887, opened |-> FALSE, reopened |-> 0],
      m_settings |-> DefaultSettings, pending |-> << >>, rebuilt |-> {} ]

\* SpectrumVis::SpectrumVis: initialiser list, then applySettings(m_settings, true)
SpectrumVisInitIn(factory) ==
    LET s == applySettings([Constructed EXCEPT !.fftFactory = factory],
                           DefaultSettings, TRUE) IN
    /\ m_running = TRUE
    /\ m_fft = s.m_fft
    /\ m_fftEngineSequence = s.m_fftEngineSequence
    /\ m_fftBuffer = [i \in {} |-> ZeroSample]
    /\ m_powerSpectrum = [i \in {} |-> ZeroPower]
    /\ m_fftBufferFill = s.m_fftBufferFill
    /\ m_needMoreSamples = FALSE
    /\ m_scalef = 1
    /\ m_glSpectrum = FALSE
    /\ m_centerFrequency = 0
    /\ m_sampleRate = 48000
    /\ m_ofs = s.m_ofs
    /\ m_powFFTDiv = s.m_powFFTDiv
    /\ m_mutex = [owner |-> "none", count |-> 0]
    /\ m_settings = s.m_settings
    /\ m_window = s.m_window
    /\ m_overlapSize = s.m_overlapSize
    /\ m_refillSize = s.m_refillSize
    /\ m_movingAverage = s.m_movingAverage
    /\ m_fixedAverage = s.m_fixedAverage
    /\ m_max = s.m_max
    /\ m_wsSpectrum = s.m_wsSpectrum
    /\ fftFactory = s.fftFactory
    /\ fftIn = [win |-> [type |-> "none", size |-> 0], x |-> << >>]
    /\ nFrames = 0
    /\ glSink = [count |-> 0, size |-> 0, frame |-> 0]
    /\ wsSink = [count |-> 0, frame |-> 0, args |-> << >>]
    /\ pcFeed = "idle"
    /\ feedArgs = [begin |-> 0, end |-> 0, positiveOnly |-> FALSE]
    /\ streamPos = 0
    /\ nFeeds = 0
    /\ pcCtl = "idle"
    /\ ctlMsg = [type |-> "none"]
    /\ nCtl = 0
    /\ call = [entry |-> "none", len |-> 0, status |-> "none", published |-> 0,
               frames |-> 0, fill |-> 0, settings |-> DefaultSettings,
               glCount |-> 0]
    /\ pending = s.pending
    /\ rebuilt = s.rebuilt
    /\ lastApply = [settings |-> DefaultSettings, force |-> TRUE,
                    prevSettings |-> DefaultSettings, prevForce |-> FALSE]
    /\ lastFrame = [n |-> 0, new |-> << >>, fftSize |-> 0, overlapSize |-> 0,
                    refillSize |-> 0, k |-> 0, engine |-> TRUE]
    /\ epoch = [fillMark |-> 0, sizeMark |-> 0, frames |-> 0, midFrame |-> FALSE,
                avgFrames |-> 0, avgPublished |-> 0]
    /\ heapOverrun = FALSE

\* the pipeline constructed next to one other pipeline
SpectrumVisInit == SpectrumVisInitIn(OtherEngines)

\* a pipeline, no FIR stage
Init ==
    /\ SpectrumVisInit
    /\ fir = NoFir
    /\ firHeap = EmptyHeap
    /\ firMem = FirMemory
    /\ firLast = NoFirOp
    /\ AdsbInit

----------------------------------------------------------------------------
\* the feed entry points (producer thread)

socketOpened == m_wsSpectrum.opened

SubscribedAlways == TRUE

\* !(!m_glSpectrum && !m_wsSpectrum.socketOpened())
Subscribed == m_glSpectrum \/ socketOpened

tryLockAlways(who) == TRUE

\* QMutex::tryLock(0) by thread who: succeeds unless another thread holds it
tryLock(who) == m_mutex.owner \in {"none", who}
locked(who) == [owner |-> who, count |-> IF m_mutex.owner = who THEN m_mutex.count + 1 ELSE 1]
unlocked == IF m_mutex.count > 1 THEN [m_mutex EXCEPT !.count = @ - 1]
                                 ELSE [owner |-> "none", count |-> 0]

\* m_glSpectrum->newSpectrum / m_wsSpectrum.newSpectrum of frame n
newSpectrumGL(ready, n) ==
    IF ready /\ m_glSpectrum
        THEN [count |-> glSink.count + 1, size |-> m_settings.m_fftSize, frame |-> n]
        ELSE glSink

newSpectrumWSNested(ready, n) ==
    IF ready /\ m_glSpectrum /\ socketOpened
        THEN [count |-> wsSink.count + 1, frame |-> n,
              args |-> <<m_settings.m_fftSize, m_centerFrequency, m_sampleRate,
                         m_settings.m_linear, m_settings.m_ssb, m_settings.m_usb>>]
        ELSE wsSink

newSpectrumWS(ready, n) ==
    IF ready /\ socketOpened
        THEN [count |-> wsSink.count + 1, frame |-> n,
              args |-> <<m_settings.m_fftSize, m_centerFrequency, m_sampleRate,
                         m_settings.m_linear, m_settings.m_ssb, m_settings.m_usb>>]
        ELSE wsSink

binsReadyAlways == TRUE

\* does this frame write the power array (None, Moving: always; Fixed, Max: storeAndGet)
binsReady ==
    CASE m_settings.m_averagingMode = AvgModeNone -> TRUE
      [] m_settings.m_averagingMode = AvgModeMoving -> TRUE
      [] m_settings.m_averagingMode = AvgModeFixed -> storeAndGet(m_fixedAverage)
      [] m_settings.m_averagingMode = AvgModeMax -> storeAndGet(m_max)

frameReadyOffByOne ==
    CASE m_settings.m_averagingMode = AvgModeNone -> TRUE
      [] m_settings.m_averagingMode = AvgModeMoving -> TRUE
      [] m_settings.m_averagingMode = AvgModeFixed -> m_fixedAverage.avgIndex = 0
      [] m_settings.m_averagingMode = AvgModeMax -> m_max.avgIndex = m_max.size - 1

\* is the frame published (None, Moving: always; Fixed: nextAverage(); Max: nextMax())
frameReady ==
    CASE m_settings.m_averagingMode = AvgModeNone -> TRUE
      [] m_settings.m_averagingMode = AvgModeMoving -> TRUE
      [] m_settings.m_averagingMode = AvgModeFixed ->
            m_fixedAverage.avgIndex = m_fixedAverage.size - 1
      [] m_settings.m_averagingMode = AvgModeMax -> m_max.avgIndex = m_max.size - 1

\* 1 when frame n reaches a sink, else 0
sinksReached(n) ==
    IF newSpectrumGL(frameReady, n) # glSink \/ newSpectrumWS(frameReady, n) # wsSink
        THEN 1 ELSE 0

\* the accumulators after the frame
averagesNext ==
    /\ m_movingAverage' = IF m_settings.m_averagingMode = AvgModeMoving
                              THEN nextMovingAverage(m_movingAverage) ELSE m_movingAverage
    /\ m_fixedAverage' = IF m_settings.m_averagingMode = AvgModeFixed
                             THEN nextAverage(m_fixedAverage) ELSE m_fixedAverage
    /\ m_max' = IF m_settings.m_averagingMode = AvgModeMax THEN nextAverage(m_max) ELSE m_max

reorderNoShift(power, n, positiveOnly) ==
    LET halfSize == m_settings.m_fftSize \div 2 IN
    [j \in DOMAIN power \cup 0..(2 * halfSize - 1) |->
        IF j >= 2 * halfSize THEN power[j]
        ELSE IF positiveOnly THEN <<n, j \div 2>>
        ELSE <<n, j>>]

\* extract power spectrum and reorder buckets: the power array after frame n
reorder(power, n, positiveOnly) ==
    LET halfSize == m_settings.m_fftSize \div 2 IN
    [j \in DOMAIN power \cup 0..(2 * halfSize - 1) |->
        IF j >= 2 * halfSize THEN power[j]
        ELSE IF positiveOnly THEN <<n, j \div 2>>
        ELSE IF j < halfSize THEN <<n, j + halfSize>>
        ELSE <<n, j - halfSize>>]

\* the power array after the raw overload has stored frame n of `length` values
rawPower(power, n, length) ==
    [j \in DOMAIN power \cup 0..(m_settings.m_fftSize - 1) |->
        IF j >= m_settings.m_fftSize THEN power[j]
        ELSE IF j < length THEN <<n, j>> ELSE <<n, -1>>]

\* std::copy(m_fftBuffer.begin() + m_refillSize, m_fftBuffer.end(), m_fftBuffer.begin())
slide(buffer, refillSize) ==
    [j \in {k - refillSize : k \in {i \in DOMAIN buffer : i >= refillSize}}
            \cup {i \in DOMAIN buffer : i + refillSize >= MAX_FFT_SIZE} |->
        IF j + refillSize < MAX_FFT_SIZE THEN buffer[j + refillSize] ELSE buffer[j]]

\* count input samples starting at iterator position begin stored from index fill on
fillBuffer(buffer, fill, begin, count) ==
    [j \in DOMAIN buffer \cup {i \in fill..(fill + count - 1) : i < MAX_FFT_SIZE} |->
        IF j >= fill /\ j < fill + count THEN <<begin + (j - fill) + 1, m_scalef>>
        ELSE buffer[j]]

\* m_window.apply(&m_fftBuffer[0], m_fft->in())
windowApply(buffer) ==
    [win |-> m_window, x |-> [i \in 1..m_window.size |-> sampleAt(buffer, i - 1)]]

\* what a feed call does before its loop: "stopped", "nosub" and "busy" return at once
feedStatus(checksRunning) ==
    IF checksRunning /\ ~m_running THEN "stopped"
    ELSE IF ~Subscribed THEN "nosub"
    ELSE IF ~tryLock("feed") THEN "busy"
    ELSE "running"

\* feed(cbegin, end, positiveOnly) up to the while loop; entry names the caller
feedEnter(entry, len, positiveOnly) ==
    /\ pcFeed = "idle"
    /\ nFeeds < MaxFeeds
    /\ nFeeds' = nFeeds + 1
    /\ streamPos' = IF feedStatus(TRUE) = "running" THEN streamPos + len ELSE streamPos
    /\ call' = [entry |-> entry, len |-> len, status |-> feedStatus(TRUE), published |-> 0,
                frames |-> 0, fill |-> m_fftBufferFill, settings |-> m_settings,
                glCount |-> glSink.count]
    /\ IF feedStatus(TRUE) = "running"
          THEN /\ m_mutex' = locked("feed")
               /\ pcFeed' = "loop"
               /\ feedArgs' = [begin |-> streamPos, end |-> streamPos + len,
                               positiveOnly |-> positiveOnly]
          ELSE UNCHANGED <<m_mutex, pcFeed, feedArgs>>
    /\ UNCHANGED <<pipeVars, confVars, sinkVars, m_running, m_scalef, m_glSpectrum,
                   m_centerFrequency, m_sampleRate, m_wsSpectrum, pcCtl, ctlMsg, nCtl,
                   pending, rebuilt, lastApply, lastFrame, epoch, heapOverrun>>
    /\ UNCHANGED <<firVars, adsbVars>>

feed(len, positiveOnly) == feedEnter("feed", len, positiveOnly)

feedTriggered(len, positiveOnly) == feedEnter("feedTriggered", len, positiveOnly)

\* the loop returns and the mutex is unlocked once begin reaches end
feedReturn(begin) ==
    IF begin < feedArgs.end
        THEN /\ feedArgs' = [feedArgs EXCEPT !.begin = begin]
             /\ UNCHANGED <<m_mutex, pcFeed>>
        ELSE /\ feedArgs' = [feedArgs EXCEPT !.begin = begin]
             /\ m_mutex' = unlocked
             /\ pcFeed' = "idle"

\* one iteration of the while loop, todo >= samplesNeeded: fill up, transform, publish, slide
feedFrame ==
    LET begin == feedArgs.begin
        samplesNeeded == m_refillSize - m_fftBufferFill
        filled == fillBuffer(m_fftBuffer, m_fftBufferFill, begin, samplesNeeded)
        n == nFrames + 1
        new == pending \o [i \in 1..samplesNeeded |-> <<begin + i, m_scalef>>]
    IN  /\ nFrames < MaxFrames
        /\ fftIn' = windowApply(filled)
        /\ nFrames' = n
        /\ m_powerSpectrum' = IF binsReady
                                  THEN reorder(m_powerSpectrum, n, feedArgs.positiveOnly)
                                  ELSE m_powerSpectrum
        /\ glSink' = newSpectrumGL(frameReady, n)
        /\ wsSink' = newSpectrumWS(frameReady, n)
        /\ averagesNext
        /\ m_fftBuffer' = slide(filled, m_refillSize)
        /\ m_fftBufferFill' = m_overlapSize
        /\ m_needMoreSamples' = FALSE
        /\ feedReturn(begin + samplesNeeded)
        /\ pending' = << >>
        /\ lastFrame' = [n |-> n, new |-> new, fftSize |-> m_settings.m_fftSize,
                         overlapSize |-> m_overlapSize, refillSize |-> m_refillSize,
                         k |-> epoch.frames + 1, engine |-> m_fft.valid]
        /\ epoch' = [epoch EXCEPT !.frames = @ + 1, !.avgFrames = @ + 1,
                                  !.avgPublished = @ + sinksReached(n)]
        /\ call' = [call EXCEPT !.frames = @ + 1,
                                !.published = @ + (IF frameReady THEN 1 ELSE 0),
                                !.status = IF begin + samplesNeeded < feedArgs.end
                                               THEN @ ELSE "done"]
        /\ UNCHANGED heapOverrun

\* the same iteration when m_fft is null: the buffer is filled up, then m_fft->in() and
\* m_fft->transform() dereference the null handle, which is undefined: the call
\* crashes here, or carries on as feedFrame
feedNullEngine ==
    LET begin == feedArgs.begin
        samplesNeeded == m_refillSize - m_fftBufferFill
    IN  /\ ~m_fft.valid
        /\ m_fftBuffer' = fillBuffer(m_fftBuffer, m_fftBufferFill, begin, samplesNeeded)
        /\ feedArgs' = [feedArgs EXCEPT !.begin = begin + samplesNeeded]
        /\ pcFeed' = "crashed"
        /\ call' = [call EXCEPT !.status = "crashed"]
        /\ lastFrame' = [lastFrame EXCEPT !.engine = FALSE]
        /\ UNCHANGED <<m_fftBufferFill, m_needMoreSamples, pending, heapOverrun, m_mutex,
                       m_powerSpectrum, m_movingAverage, m_fixedAverage, m_max, fftIn,
                       nFrames, sinkVars, epoch>>

\* one iteration, not enough samples: just fill in new data and return.  A write at
\* or past m_fftBuffer.end() is undefined: the call either carries on or crashes.
feedFill ==
    LET begin == feedArgs.begin
        todo == feedArgs.end - begin
        inRange == m_fftBufferFill + todo <= MAX_FFT_SIZE
    IN  /\ m_fftBuffer' = fillBuffer(m_fftBuffer, m_fftBufferFill, begin, todo)
        /\ m_fftBufferFill' = m_fftBufferFill + todo
        /\ m_needMoreSamples' = TRUE
        /\ pending' = pending \o [i \in 1..todo |-> <<begin + i, m_scalef>>]
        /\ heapOverrun' = (heapOverrun \/ ~inRange)
        /\ \/ /\ feedReturn(feedArgs.end)
              /\ call' = [call EXCEPT !.status = "done"]
           \/ /\ ~inRange
              /\ pcFeed' = "crashed"
              /\ call' = [call EXCEPT !.status = "crashed"]
              /\ UNCHANGED <<feedArgs, m_mutex>>
        /\ UNCHANGED <<m_powerSpectrum, m_movingAverage, m_fixedAverage, m_max, fftIn,
                       nFrames, sinkVars, lastFrame, epoch>>

enoughSamplesStrict(todo) ==
    /\ m_refillSize >= m_fftBufferFill
    /\ todo > m_refillSize - m_fftBufferFill

\* todo >= samplesNeeded, where std::size_t samplesNeeded = m_refillSize - m_fftBufferFill
\* wraps to a value above any todo when the fill pointer is past m_refillSize
enoughSamples(todo) ==
    /\ m_refillSize >= m_fftBufferFill
    /\ todo >= m_refillSize - m_fftBufferFill

\* while (begin < end)
feedLoop ==
    /\ pcFeed = "loop"
    /\ feedArgs.begin < feedArgs.end
    /\ IF enoughSamples(feedArgs.end - feedArgs.begin)
          THEN feedFrame \/ feedNullEngine
          ELSE feedFill
    /\ UNCHANGED <<confVars, m_running, m_scalef, m_glSpectrum, m_centerFrequency,
                   m_sampleRate, m_wsSpectrum, streamPos, nFeeds, pcCtl, ctlMsg, nCtl,
                   rebuilt, lastApply>>
    /\ UNCHANGED <<firVars, adsbVars>>

\* feed(const Complex *begin, unsigned int length): power of the samples, no transform
feedRaw(length) ==
    /\ pcFeed = "idle"
    /\ nFeeds < MaxFeeds
    /\ nFeeds' = nFeeds + 1
    /\ IF feedStatus(FALSE) = "running"
          THEN /\ nFrames' = nFrames + 1
               /\ m_powerSpectrum' = IF binsReady
                                         THEN rawPower(m_powerSpectrum, nFrames + 1, length)
                                         ELSE m_powerSpectrum
               /\ glSink' = newSpectrumGL(frameReady, nFrames + 1)
               /\ wsSink' = newSpectrumWS(frameReady, nFrames + 1)
               /\ averagesNext
               /\ epoch' = [epoch EXCEPT !.avgFrames = @ + 1,
                                         !.avgPublished = @ + sinksReached(nFrames + 1)]
               /\ call' = [entry |-> "feedRaw", len |-> length, status |-> "done",
                           published |-> IF frameReady THEN 1 ELSE 0, frames |-> 1,
                           fill |-> m_fftBufferFill, settings |-> m_settings,
                           glCount |-> glSink.count]
          ELSE /\ call' = [entry |-> "feedRaw", len |-> length, status |-> feedStatus(FALSE),
                           published |-> 0, frames |-> 0, fill |-> m_fftBufferFill,
                           settings |-> m_settings, glCount |-> glSink.count]
               /\ UNCHANGED <<nFrames, m_powerSpectrum, sinkVars, m_movingAverage,
                              m_fixedAverage, m_max, epoch>>
    /\ UNCHANGED <<m_fftBuffer, m_fftBufferFill, m_needMoreSamples, fftIn, confVars,
                   m_running, m_scalef, m_glSpectrum, m_centerFrequency, m_sampleRate,
                   m_wsSpectrum, m_mutex, pcFeed, feedArgs, streamPos, pcCtl, ctlMsg, nCtl,
                   pending, rebuilt, lastApply, lastFrame, heapOverrun>>
    /\ UNCHANGED <<firVars, adsbVars>>

----------------------------------------------------------------------------
\* SpectrumVis::handleMessage (control thread)

ConfigureMsgs ==
    [type : {"MsgConfigureSpectrumVis"}, settings : Cfgs, force : {FALSE}]
    \cup [type : {"MsgConfigureSpectrumVis"}, settings : ForcedCfgs, force : {TRUE}]

LockingMsgs ==
    [type : {"MsgConfigureSpectrumVis"}, settings : PlainCfgs, force : {FALSE}]
    \cup [type : {"DSPSignalNotification"}, centerFrequency : Frequencies,
          sampleRate : SampleRates]
    \cup [type : {"MsgConfigureScalingFactor"}, scalef : Scalefs]
    \cup [type : {"MsgConfigureWSpectrumOpenClose"}, openClose : BOOLEAN]

ctlRest == <<pipeVars, sinkVars, m_running, m_glSpectrum, pcFeed, feedArgs, streamPos,
             nFeeds, call, lastFrame, heapOverrun>>

\* handleMessage dispatches to a handler that starts with QMutexLocker(&m_mutex):
\* the control thread waits until the producer is out of its critical section
lockMutex(msg) ==
    /\ pcCtl = "idle"
    /\ nCtl < MaxCtl
    /\ m_mutex.owner # "feed"
    /\ m_mutex' = locked("ctl")
    /\ pcCtl' = "locked"
    /\ ctlMsg' = msg
    /\ nCtl' = nCtl + 1
    /\ UNCHANGED <<ctlRest, confVars, m_scalef, m_centerFrequency, m_sampleRate,
                   m_wsSpectrum, pending, rebuilt, lastApply, epoch>>
    /\ UNCHANGED <<firVars, adsbVars>>

\* the members applySettings works on
members ==
    [ m_fft |-> m_fft, m_fftEngineSequence |-> m_fftEngineSequence,
      fftFactory |-> fftFactory, m_ofs |-> m_ofs, m_powFFTDiv |-> m_powFFTDiv,
      m_window |-> m_window, m_overlapSize |-> m_overlapSize,
      m_refillSize |-> m_refillSize, m_fftBufferFill |-> m_fftBufferFill,
      m_movingAverage |-> m_movingAverage, m_fixedAverage |-> m_fixedAverage,
      m_max |-> m_max, m_wsSpectrum |-> m_wsSpectrum, m_settings |-> m_settings,
      pending |-> pending, rebuilt |-> rebuilt ]

\* MsgConfigureSpectrumVis: applySettings(cfg.getSettings(), cfg.getForce())
handleConfigureSpectrumVis ==
    /\ pcCtl = "locked"
    /\ ctlMsg.type = "MsgConfigureSpectrumVis"
    /\ LET s == applySettings(members, ctlMsg.settings, ctlMsg.force) IN
        /\ m_fft' = s.m_fft
        /\ m_fftEngineSequence' = s.m_fftEngineSequence
        /\ fftFactory' = s.fftFactory
        /\ m_ofs' = s.m_ofs
        /\ m_powFFTDiv' = s.m_powFFTDiv
        /\ m_window' = s.m_window
        /\ m_overlapSize' = s.m_overlapSize
        /\ m_refillSize' = s.m_refillSize
        /\ m_fftBufferFill' = s.m_fftBufferFill
        /\ m_movingAverage' = s.m_movingAverage
        /\ m_fixedAverage' = s.m_fixedAverage
        /\ m_max' = s.m_max
        /\ m_wsSpectrum' = s.m_wsSpectrum
        /\ m_settings' = s.m_settings
        /\ pending' = s.pending
        /\ rebuilt' = s.rebuilt
        /\ epoch' = [fillMark |-> IF "overlap" \in s.rebuilt THEN streamPos
                                   ELSE epoch.fillMark,
                     sizeMark |-> IF s.m_settings.m_fftSize # m_settings.m_fftSize
                                   THEN streamPos ELSE epoch.sizeMark,
                     frames |-> IF "overlap" \in s.rebuilt THEN 0 ELSE epoch.frames,
                     midFrame |-> IF s.m_settings.m_fftSize # m_settings.m_fftSize
                                   THEN m_needMoreSamples ELSE epoch.midFrame,
                     avgFrames |-> IF "averaging" \in s.rebuilt THEN 0
                                    ELSE epoch.avgFrames,
                     avgPublished |-> IF "averaging" \in s.rebuilt THEN 0
                                       ELSE epoch.avgPublished]
    /\ lastApply' = [settings |-> ctlMsg.settings, force |-> ctlMsg.force,
                     prevSettings |-> lastApply.settings, prevForce |-> lastApply.force]
    /\ m_mutex' = unlocked
    /\ pcCtl' = "idle"
    /\ UNCHANGED <<m_fftBuffer, m_needMoreSamples, m_powerSpectrum, fftIn, nFrames,
                   sinkVars, m_running, m_glSpectrum, pcFeed, feedArgs, streamPos,
                   nFeeds, call, lastFrame, heapOverrun, m_scalef, m_centerFrequency,
                   m_sampleRate, ctlMsg, nCtl>>
    /\ UNCHANGED <<firVars, adsbVars>>

\* DSPSignalNotification
handleConfigureDSP ==
    /\ pcCtl = "locked"
    /\ ctlMsg.type = "DSPSignalNotification"
    /\ m_centerFrequency' = ctlMsg.centerFrequency
    /\ m_sampleRate' = ctlMsg.sampleRate
    /\ m_mutex' = unlocked
    /\ pcCtl' = "idle"
    /\ UNCHANGED <<ctlRest, confVars, m_scalef, m_wsSpectrum, ctlMsg, nCtl, pending,
                   rebuilt, lastApply, epoch>>
    /\ UNCHANGED <<firVars, adsbVars>>

\* MsgConfigureScalingFactor
handleScalef ==
    /\ pcCtl = "locked"
    /\ ctlMsg.type = "MsgConfigureScalingFactor"
    /\ m_scalef' = ctlMsg.scalef
    /\ m_mutex' = unlocked
    /\ pcCtl' = "idle"
    /\ UNCHANGED <<ctlRest, confVars, m_centerFrequency, m_sampleRate, m_wsSpectrum,
                   ctlMsg, nCtl, pending, rebuilt, lastApply, epoch>>
    /\ UNCHANGED <<firVars, adsbVars>>

\* MsgConfigureWSpectrumOpenClose: openSocket() or closeSocket()
handleWSOpenClose ==
    /\ pcCtl = "locked"
    /\ ctlMsg.type = "MsgConfigureWSpectrumOpenClose"
    /\ m_wsSpectrum' = [m_wsSpectrum EXCEPT !.opened = ctlMsg.openClose]
    /\ m_mutex' = unlocked
    /\ pcCtl' = "idle"
    /\ UNCHANGED <<ctlRest, confVars, m_scalef, m_centerFrequency, m_sampleRate,
                   ctlMsg, nCtl, pending, rebuilt, lastApply, epoch>>
    /\ UNCHANGED <<firVars, adsbVars>>

\* MsgConfigureWSpectrum: handleConfigureWSSpectrum called straight from handleMessage,
\* without the mutex; it sets address and port and closes an opened socket ...
handleMsgConfigureWSpectrum(address, port) ==
    /\ pcCtl = "idle"
    /\ nCtl < MaxCtl
    /\ nCtl' = nCtl + 1
    /\ ctlMsg' = [type |-> "MsgConfigureWSpectrum", address |-> address, port |-> port]
    /\ m_wsSpectrum' = [m_wsSpectrum EXCEPT !.address = address, !.port = port,
                                            !.opened = FALSE]
    /\ pcCtl' = IF m_wsSpectrum.opened THEN "wsReopen" ELSE "idle"
    /\ UNCHANGED <<ctlRest, confVars, m_scalef, m_centerFrequency, m_sampleRate,
                   m_mutex, pending, rebuilt, lastApply, epoch>>
    /\ UNCHANGED <<firVars, adsbVars>>

\* ... and opens it again
wsReopen ==
    /\ pcCtl = "wsReopen"
    /\ m_wsSpectrum' = [m_wsSpectrum EXCEPT !.opened = TRUE, !.reopened = @ + 1]
    /\ pcCtl' = "idle"
    /\ UNCHANGED <<ctlRest, confVars, m_scalef, m_centerFrequency, m_sampleRate,
                   m_mutex, ctlMsg, nCtl, pending, rebuilt, lastApply, epoch>>
    /\ UNCHANGED <<firVars, adsbVars>>

\* MsgStartStop: start() or stop()
handleStartStop(startStop) ==
    /\ pcCtl = "idle"
    /\ nCtl < MaxCtl
    /\ nCtl' = nCtl + 1
    /\ ctlMsg' = [type |-> "MsgStartStop", startStop |-> startStop]
    /\ m_running' = startStop
    /\ UNCHANGED <<pipeVars, sinkVars, confVars, m_glSpectrum, pcFeed, feedArgs,
                   streamPos, nFeeds, call, lastFrame, heapOverrun, m_scalef,
                   m_centerFrequency, m_sampleRate, m_wsSpectrum, m_mutex, pcCtl,
                   pending, rebuilt, lastApply, epoch>>
    /\ UNCHANGED <<firVars, adsbVars>>

\* setGLSpectrum: the display sink is attached or detached (GUI side)
setGLSpectrum(attached) ==
    /\ pcCtl # "destroyed"
    /\ m_glSpectrum # attached
    /\ m_glSpectrum' = attached
    /\ UNCHANGED <<pipeVars, sinkVars, confVars, m_running, pcFeed, feedArgs,
                   streamPos, nFeeds, call, lastFrame, heapOverrun, m_scalef,
                   m_centerFrequency, m_sampleRate, m_wsSpectrum, m_mutex, pcCtl,
                   ctlMsg, nCtl, pending, rebuilt, lastApply, epoch>>
    /\ UNCHANGED <<firVars, adsbVars>>

destructorNoRelease ==
    /\ pcCtl = "idle" /\ pcFeed = "idle"
    /\ pcCtl' = "destroyed" /\ pcFeed' = "destroyed"
    /\ UNCHANGED <<pipeVars, sinkVars, confVars, m_running, m_glSpectrum, feedArgs,
                   streamPos, nFeeds, call, lastFrame, heapOverrun, m_scalef,
                   m_centerFrequency, m_sampleRate, m_wsSpectrum, m_mutex, ctlMsg, nCtl,
                   pending, rebuilt, lastApply, epoch>>
    /\ UNCHANGED <<firVars, adsbVars>>

\* SpectrumVis::~SpectrumVis, once no thread is inside the object:
\* releaseEngine(m_settings.m_fftSize, false, m_fftEngineSequence)
destructor ==
    /\ pcCtl = "idle" /\ pcFeed = "idle"
    /\ pcCtl' = "destroyed" /\ pcFeed' = "destroyed"
    /\ fftFactory' = releaseEngine(fftFactory, m_settings.m_fftSize, m_fftEngineSequence)
    /\ UNCHANGED <<pipeVars, sinkVars, m_settings, m_fft, m_fftEngineSequence, m_window,
                   m_overlapSize, m_refillSize, m_ofs, m_powFFTDiv, m_running,
                   m_glSpectrum, feedArgs, streamPos, nFeeds, call, lastFrame,
                   heapOverrun, m_scalef, m_centerFrequency, m_sampleRate, m_wsSpectrum,
                   m_mutex, ctlMsg, nCtl, pending, rebuilt, lastApply, epoch>>
    /\ UNCHANGED <<firVars, adsbVars>>

\* every entry point and every message, on a small alphabet
Next ==
    \/ \E len \in FeedLens : feed(len, FALSE)
    \/ \E len \in TriggerLens : feedTriggered(len, TRUE)
    \/ feedLoop
    \/ \E length \in RawLens : feedRaw(length)
    \/ \E msg \in LockingMsgs : lockMutex(msg)
    \/ handleConfigureSpectrumVis
    \/ handleConfigureDSP
    \/ handleScalef
    \/ handleWSOpenClose
    \/ \E address \in Addresses, port \in Ports : handleMsgConfigureWSpectrum(address, port)
    \/ wsReopen
    \/ \E startStop \in BOOLEAN : handleStartStop(startStop)
    \/ \E attached \in BOOLEAN : setGLSpectrum(attached)

Spec == Init /\ [][Next]_vars

\* configure and the streaming feed with a display attached, on the full set of requests
NextFraming ==
    \/ setGLSpectrum(TRUE)
    \/ \E msg \in ConfigureMsgs : lockMutex(msg)
    \/ handleConfigureSpectrumVis
    \/ \E len \in ChunkLens : feed(len, FALSE)
    \/ feedLoop

SpecFraming == Init /\ [][NextFraming]_vars

\* construction, configure calls on the full set of requests, streaming, destruction
NextLifecycle ==
    \/ setGLSpectrum(TRUE)
    \/ \E msg \in ConfigureMsgs : lockMutex(msg)
    \/ handleConfigureSpectrumVis
    \/ \E len \in ChunkLens : feed(len, FALSE)
    \/ feedLoop
    \/ destructor

SpecLifecycle == Init /\ [][NextLifecycle]_vars

\* another pipeline releases one of its engines to the shared factory
otherReleaseEngine ==
    /\ \E e \in fftFactory \ {<<m_settings.m_fftSize, m_fftEngineSequence>>} :
          fftFactory' = releaseEngine(fftFactory, e[1], e[2])
    /\ UNCHANGED <<pipeVars, sinkVars, m_settings, m_fft, m_fftEngineSequence, m_window,
                   m_overlapSize, m_refillSize, m_ofs, m_powFFTDiv, m_running,
                   m_glSpectrum, feedArgs, streamPos, nFeeds, call, lastFrame,
                   heapOverrun, m_scalef, m_centerFrequency, m_sampleRate, m_wsSpectrum,
                   m_mutex, ctlMsg, nCtl, pending, rebuilt, lastApply, epoch, pcCtl,
                   pcFeed>>
    /\ UNCHANGED <<firVars, adsbVars>>

\* the pipeline constructed when the other pipelines have exhausted the factory
InitExhausted ==
    /\ SpectrumVisInitIn(FullFactory)
    /\ fir = NoFir
    /\ firHeap = EmptyHeap
    /\ firMem = FirMemory
    /\ firLast = NoFirOp
    /\ AdsbInit

NextExhausted ==
    \/ NextLifecycle
    \/ otherReleaseEngine

SpecExhausted == InitExhausted /\ [][NextExhausted]_vars

AvgMsgs ==
    [type : {"MsgConfigureSpectrumVis"}, settings : AvgCfgs, force : {FALSE}]
    \cup [type : {"MsgConfigureSpectrumVis"}, settings : ForcedAvgCfgs, force : {TRUE}]

\* configure over every averaging mode and the streaming feed with a display attached
NextAveraging ==
    \/ setGLSpectrum(TRUE)
    \/ \E msg \in AvgMsgs : lockMutex(msg)
    \/ handleConfigureSpectrumVis
    \/ \E f \in AvgFeeds : feed(f[1], f[2])
    \/ feedLoop

SpecAveraging == Init /\ [][NextAveraging]_vars

DisplayMsgs ==
    [type : {"MsgConfigureSpectrumVis"}, settings : DisplayCfgs, force : BOOLEAN]

\* configure over the display fields, streaming feed with a display attached
NextDisplay ==
    \/ setGLSpectrum(TRUE)
    \/ \E msg \in DisplayMsgs : lockMutex(msg)
    \/ handleConfigureSpectrumVis
    \/ \E len \in ChunkLens : feed(len, FALSE)
    \/ feedLoop

SpecDisplay == Init /\ [][NextDisplay]_vars

OddMsgs ==
    [type : {"MsgConfigureSpectrumVis"}, settings : OddCfgs, force : {FALSE}]

\* configure between an even and an odd size, streaming feed with a display attached
NextOddSize ==
    \/ setGLSpectrum(TRUE)
    \/ \E msg \in OddMsgs : lockMutex(msg)
    \/ handleConfigureSpectrumVis
    \/ \E f \in OddFeeds : feed(f[1], f[2])
    \/ feedLoop

SpecOddSize == Init /\ [][NextOddSize]_vars

----------------------------------------------------------------------------
\* WDSP::ICFIR: construction, the setters, execute, flush, destruction

\* ICFIR::ICFIR: the fields are stored, then calc()
ICFIR(run, size, nc, mp, in, out, runrate, cicrate, DD, R, Pairs, cutoff, xtype, xbw, wintype) ==
    calc([run |-> run, size |-> size, nc |-> nc, mp |-> mp, in |-> in, out |-> out,
          runrate |-> runrate, cicrate |-> cicrate, DD |-> DD, R |-> R, Pairs |-> Pairs,
          cutoff |-> cutoff, xtype |-> xtype, xbw |-> xbw, wintype |-> wintype,
          scale |-> <<0, 1>>, p |-> 0],
         EmptyHeap)

\* a stage exists and may be called
firAlive == fir.p # 0 /\ firLast.op # "~ICFIR" /\ firLast.n < MaxFirOps

\* decalc(); the setter's assignment, giving stage f; calc()
rebuild(op, f) ==
    LET c == calc(f, decalc(fir, firHeap)) IN
    /\ firAlive
    /\ fir' = c.fir
    /\ firHeap' = c.heap
    /\ firLast' = [op |-> op, n |-> firLast.n + 1, A |-> c.A,
                    zeroDivisors |-> c.zeroDivisors]
    /\ UNCHANGED <<firMem, svVars, adsbVars>>

setBuffers(in, out) == rebuild("setBuffers", [fir EXCEPT !.in = in, !.out = out])

setSamplerate(rate) == rebuild("setSamplerate", [fir EXCEPT !.runrate = rate])

setSize(size) == rebuild("setSize", [fir EXCEPT !.size = size])

setOutRate(rate) == rebuild("setOutRate", [fir EXCEPT !.cicrate = rate])

\* FIRCORE::execute of engine e: 2 * size filtered floats from its input to its output
coreExecute(e, mem) ==
    [mem EXCEPT ![e.out] = [k \in 1..FirBufLen |->
        IF k <= 2 * e.size THEN [filtered |-> mem[e.in][k]] ELSE mem[e.out][k]]]

bypassCopySize(f, mem) ==
    [mem EXCEPT ![f.out] = [k \in 1..FirBufLen |->
        IF k <= f.size THEN mem[f.in][k] ELSE mem[f.out][k]]]

\* std::copy(in, in + size * 2, out)
bypassCopy(f, mem) ==
    [mem EXCEPT ![f.out] = [k \in 1..FirBufLen |->
        IF k <= f.size * 2 THEN mem[f.in][k] ELSE mem[f.out][k]]]

\* ICFIR::execute
execute ==
    /\ firAlive
    /\ firMem' = IF fir.run # 0 THEN coreExecute(firHeap.live[fir.p], firMem)
                 ELSE IF fir.in # fir.out THEN bypassCopy(fir, firMem)
                 ELSE firMem
    /\ firLast' = [firLast EXCEPT !.op = "execute", !.n = @ + 1]
    /\ UNCHANGED <<fir, firHeap, svVars, adsbVars>>

\* ICFIR::flush: p->flush() clears the engine's history
flush ==
    /\ firAlive
    /\ fir.p \in DOMAIN firHeap.live
    /\ firLast' = [firLast EXCEPT !.op = "flush", !.n = @ + 1]
    /\ UNCHANGED <<fir, firHeap, firMem, svVars, adsbVars>>

\* ICFIR::~ICFIR: decalc()
firDestructor ==
    /\ fir.p # 0 /\ firLast.op # "~ICFIR"
    /\ firHeap' = decalc(fir, firHeap)
    /\ firLast' = [firLast EXCEPT !.op = "~ICFIR"]
    /\ UNCHANGED <<fir, firMem, svVars, adsbVars>>

\* one stage: constructed over the orders, transition types, cutoffs and run flags
InitFIR ==
    /\ SpectrumVisInit
    /\ \E run \in {0, 1}, nc \in FirOrders, xtype \in {0, 1}, cutoff \in FirCutoffs :
          LET c == ICFIR(run, 2, nc, 0, "a", "b", 8, 8, 1, 8, 4, cutoff, xtype, 2, 0) IN
          /\ fir = c.fir
          /\ firHeap = c.heap
          /\ firLast = [op |-> "ICFIR", n |-> 0, A |-> c.A,
                        zeroDivisors |-> c.zeroDivisors]
    /\ firMem = FirMemory
    /\ AdsbInit

NextFIR ==
    \/ \E in \in FirBuffers, out \in FirBuffers : setBuffers(in, out)
    \/ \E rate \in FirRates : setSamplerate(rate)
    \/ \E size \in FirSizes : setSize(size)
    \/ \E rate \in FirRates : setOutRate(rate)
    \/ execute
    \/ flush
    \/ firDestructor

SpecFIR == InitFIR /\ [][NextFIR]_vars

----------------------------------------------------------------------------
\* ADSBDemodWorker: settings, handleADSB, heartbeat

\* ADSBDemodWorker::applySettings on socket sock
adsbSocketAfterApply(sock, settings, force) ==
    IF settings.m_beastEnabled # adsbSettings.m_beastEnabled \/ force
        THEN [sock EXCEPT !.open = settings.m_beastEnabled]
        ELSE sock

\* handleMessage, MsgConfigureADSBDemodWorker: applySettings(settings, force)
adsbApplySettings(settings, force) ==
    /\ adsbSocket' = adsbSocketAfterApply(adsbSocket, settings, force)
    /\ adsbSettings' = settings
    /\ UNCHANGED <<adsbLast, svVars, firVars>>

\* ADSBDemodWorker::send: the socket after the call
send(sock, data) ==
    IF adsbSettings.m_beastEnabled
        THEN [open |-> TRUE, writes |-> sock.writes + 1, last |-> data]
        ELSE sock

\* if (correlation > 255) 255; if (correlation < 1) 1; else (unsigned char)correlation,
\* correlation in halves.  The second if has no else before it, so its else branch
\* also takes the values above 255; converting a value of 256 or more to unsigned
\* char is undefined: the low byte of the truncated value, or the largest value
signalStrengths(correlation) ==
    LET truncated == correlation \div 2 IN
    IF correlation < 2 THEN {1}
    ELSE IF truncated <= 255 THEN {truncated}
    ELSE {truncated % 256, 255}

\* for (int i = 0; i < data.length(); i++) p = escape(p, data[i])
RECURSIVE escapeData(_, _, _)
escapeData(p, data, i) ==
    IF i > Len(data) THEN p ELSE escapeData(escape(p, data[i]), data, i + 1)

\* the bytes handleADSB stores through p, in order
beastPacket(data, timestamp, signalStrength) ==
    LET head == <<BEAST_ESC, 51>>
        t56 == escape(head, timestampByte(timestamp, 56))
        t48 == escape(t56, timestampByte(timestamp, 48))
        t32 == escape(t48, timestampByte(timestamp, 32))
        t24 == escape(t32, timestampByte(timestamp, 24))
        t16 == escape(t24, timestampByte(timestamp, 16))
        t8 == escape(t16, timestampByte(timestamp, 8))
        t0 == escape(t8, timestampByte(timestamp, 0))
    IN  escapeData(escape(t0, signalStrength), data, 1)

\* ADSBDemodWorker::handleADSB.  Storing past beastBinary + beastBinarySize is
\* undefined: the call crashes, or carries on and sends what it stored
handleADSB(data, dateTime, correlation) ==
    /\ adsbLast.n < MaxBeastCalls
    /\ \E signalStrength \in signalStrengths(correlation) :
          LET stored == beastPacket(data, dateTime, signalStrength)
              record == [op |-> "handleADSB", n |-> adsbLast.n + 1,
                         correlation |-> correlation, timestamp |-> dateTime,
                         data |-> data, signalStrength |-> signalStrength,
                         stored |-> stored, status |-> "sent"]
          IN  \/ /\ adsbLast' = record
                 /\ adsbSocket' = send(adsbSocket, stored)
              \/ /\ Len(stored) > beastBinarySize
                 /\ adsbLast' = [record EXCEPT !.status = "crashed"]
                 /\ UNCHANGED adsbSocket
    /\ UNCHANGED <<adsbSettings, svVars, firVars>>

\* ADSBDemodWorker::heartbeat: a Mode AC packet of 11 bytes
heartbeat ==
    /\ adsbLast.n < MaxBeastCalls
    /\ adsbSocket' = send(adsbSocket, <<BEAST_ESC, 49, 0, 0, 0, 0, 0, 0, 0, 0, 0>>)
    /\ adsbLast' = [adsbLast EXCEPT !.op = "heartbeat", !.n = @ + 1]
    /\ UNCHANGED <<adsbSettings, svVars, firVars>>

NextBeast ==
    \/ \E enabled \in BOOLEAN, force \in BOOLEAN :
          adsbApplySettings([m_beastEnabled |-> enabled], force)
    \/ \E data \in Frames, dateTime \in Timestamps, correlation \in Correlations :
          handleADSB(data, dateTime, correlation)
    \/ heartbeat

SpecBeast == Init /\ [][NextBeast]_vars

----------------------------------------------------------------------------
\* SpectrumVis::webapiSpectrumSettingsGet: webapiFormatSpectrumSettings(response, m_settings)
webapiSpectrumSettingsGet ==
    [fftSize |-> m_settings.m_fftSize, fftOverlap |-> m_settings.m_fftOverlap,
     fftWindow |-> m_settings.m_fftWindow, refLevel |-> m_settings.m_refLevel,
     averagingMode |-> m_settings.m_averagingMode,
     averagingValue |-> getAveragingValue(m_settings.m_averagingIndex,
                                          m_settings.m_averagingMode),
     linear |-> m_settings.m_linear, ssb |-> m_settings.m_ssb, usb |-> m_settings.m_usb,
     wsSpectrumPort |-> m_settings.m_wsSpectrumPort,
     wsSpectrumAddress |-> m_settings.m_wsSpectrumAddress]

----------------------------------------------------------------------------
\* Properties

\* a streaming feed call that ran to its end under 0 % overlap and averaging mode None
PlainCallDone ==
    /\ call.entry = "feed"
    /\ call.status = "done"
    /\ call.settings.m_fftOverlap = 0
    /\ call.settings.m_averagingMode = AvgModeNone

\* C1: with a display attached, the pipeline running, the lock free, 0 % overlap and
\* averaging mode None, a streaming feed call delivers one frame to the display per
\* fftSize samples, however the samples are split: a call of fftSize samples on an empty
\* staging buffer delivers exactly one frame, a call of fftSize/2 samples delivers none
\* on an empty buffer and exactly one on a half-filled buffer.
C1_OneFramePerFftSize ==
    PlainCallDone =>
        LET fftSize == call.settings.m_fftSize
            delivered == glSink.count - call.glCount
        IN  /\ delivered = (call.fill + call.len) \div fftSize
            /\ call.published = delivered
            /\ (call.len = fftSize /\ call.fill = 0) => delivered = 1
            /\ (2 * call.len = fftSize /\ call.fill = 0) => delivered = 0
            /\ (2 * call.len = fftSize /\ call.fill = call.len) => delivered = 1
            /\ delivered > 0 => glSink.size = fftSize

\* the second of two half-frame calls has delivered the one frame
C1_Witness ==
    /\ PlainCallDone
    /\ 2 * call.len = call.settings.m_fftSize
    /\ call.fill = call.len
    /\ glSink.count = call.glCount + 1

\* C2: for every fftSize and overlap percent, a frame is transformed each time exactly
\* refillSize = fftSize - overlapSize new samples have been appended since the previous
\* frame or since configure.
C2_FrameEveryRefillSize ==
    lastFrame.n > 0 => Len(lastFrame.new) = lastFrame.refillSize

\* C3: each transformed frame after the first is the last overlapSize samples of the
\* previous frame followed, in order, by refillSize newly fed samples, and after the
\* frame the staging buffer starts with the frame's last overlapSize samples.
C3_OverlapSaveFraming ==
    [][ (pcFeed = "loop" /\ nFrames' = nFrames + 1 /\ epoch.frames >= 1)
        => /\ Len(lastFrame'.new) = m_refillSize
           /\ fftIn'.x = SubSeq(fftIn.x, m_refillSize + 1, m_settings.m_fftSize)
                            \o lastFrame'.new
           /\ \A j \in 0..(m_overlapSize - 1) :
                 sampleAt(m_fftBuffer', j) = fftIn'.x[m_refillSize + j + 1] ]_vars

\* C4: a feed call made while the control thread holds the mutex returns at once: the
\* producer is not left inside the call, the mutex is untouched, nothing is published and
\* staging buffer, fill pointer, accumulators and power array are unchanged.
C4_FeedNeverWaits ==
    [][ (pcFeed = "idle" /\ nFeeds' = nFeeds + 1 /\ m_mutex.owner = "ctl")
        => /\ pcFeed' = "idle"
           /\ UNCHANGED <<pipeVars, sinkVars, m_mutex, streamPos, pending>> ]_vars

\* a chunk was dropped on the held lock while a frame was partly accumulated
C4_Witness ==
    /\ call.status = "busy"
    /\ m_mutex.owner = "ctl"
    /\ m_needMoreSamples

\* C5: no configuration mutation reachable from handleMessage (settings, engine, window,
\* overlap sizes, scale factor, centre frequency, sample rate, network sink address, port
\* and socket) happens while a feed is between its tryLock and its unlock.
C5_MutationUnderLock ==
    [][ (<<confVars, m_scalef, m_centerFrequency, m_sampleRate, m_wsSpectrum>>'
            # <<confVars, m_scalef, m_centerFrequency, m_sampleRate, m_wsSpectrum>>)
        => m_mutex.owner # "feed" ]_vars

\* C6: while the pipeline is stopped every feed entry point is a no-op (nothing stored,
\* nothing published), and start() and stop() change only the running flag.
C6_StoppedFeedIsNoOp ==
    [][ /\ (~m_running /\ nFeeds' = nFeeds + 1) => UNCHANGED <<pipeVars, sinkVars>>
        /\ (m_running' # m_running)
              => UNCHANGED <<pipeVars, sinkVars, confVars, m_scalef, m_centerFrequency,
                             m_sampleRate, m_wsSpectrum, m_glSpectrum, m_mutex>> ]_vars

\* C7: a feed call made while no display is attached and the socket is closed discards
\* the samples: nothing is stored or published and the mutex is not taken.
C7_NoSubscriberDiscards ==
    [][ (pcFeed = "idle" /\ nFeeds' = nFeeds + 1 /\ ~m_glSpectrum /\ ~m_wsSpectrum.opened)
        => /\ pcFeed' = "idle"
           /\ UNCHANGED <<pipeVars, sinkVars, m_mutex, streamPos, pending>> ]_vars

\* a chunk was discarded for want of a subscriber while a frame was partly accumulated
C7_Witness ==
    /\ call.status = "nosub"
    /\ m_needMoreSamples
    /\ m_fftBufferFill > m_overlapSize

\* v clamped to lo..hi is c
IsClamped(v, lo, hi, c) ==
    /\ c >= lo /\ c <= hi
    /\ (v >= lo /\ v <= hi) => c = v
    /\ v < lo => c = lo
    /\ v > hi => c = hi

\* C8: configure never rejects a request: the stored fftSize is the request clamped to
\* 64..4096, the stored overlap the request clamped to 0..100, every other field is stored
\* as requested, engine, window, overlapSize, refillSize and accumulators are sized from
\* the clamped values, and the settings-read path returns the clamped values.
C8_ClampedNeverRejected ==
    LET req == lastApply.settings
        size == m_settings.m_fftSize
        ovl == m_settings.m_fftOverlap
    IN  /\ IsClamped(req.m_fftSize, 64, 4096, size)
        /\ IsClamped(req.m_fftOverlap, 0, 100, ovl)
        /\ m_settings = [req EXCEPT !.m_fftSize = size, !.m_fftOverlap = ovl]
        /\ m_fft.valid /\ m_fft.size = size
        /\ <<size, m_fftEngineSequence>> \in fftFactory
        /\ m_window.size = size
        /\ m_overlapSize = (size * ovl) \div 100
        /\ m_refillSize = size - m_overlapSize
        /\ m_movingAverage.width = size /\ m_fixedAverage.width = size /\ m_max.width = size
        /\ m_powFFTDiv = size * size
        /\ webapiSpectrumSettingsGet.fftSize = size
        /\ webapiSpectrumSettingsGet.fftOverlap = ovl

\* a request above both ranges has been applied
C8_Witness ==
    /\ nCtl >= 1 /\ pcCtl = "idle"
    /\ lastApply.settings.m_fftSize > 4096 /\ lastApply.settings.m_fftOverlap > 100
    /\ m_settings.m_fftSize = 4096 /\ m_settings.m_fftOverlap = 100

\* the second of two configure calls with the same request, the first one forced
SameAfterForced ==
    /\ lastApply.prevForce /\ ~lastApply.force
    /\ lastApply.settings = lastApply.prevSettings

\* C9: configure(cfg, false) straight after configure(cfg, true) with the same cfg, in or
\* out of range, rebuilds nothing: no engine release or acquire, no window rebuild, no
\* overlap/refill recomputation or fill pointer reset, no accumulator resize, no network
\* sink reconfiguration.
C9_ForceThenSameIsNoRebuild ==
    [][ ( /\ pcCtl = "locked" /\ pcCtl' = "idle"
          /\ ctlMsg.type = "MsgConfigureSpectrumVis"
          /\ lastApply.force /\ ~ctlMsg.force
          /\ ctlMsg.settings = lastApply.settings )
        => /\ rebuilt' = {}
           /\ UNCHANGED <<m_fft, m_fftEngineSequence, fftFactory, m_ofs, m_powFFTDiv,
                          m_window, m_overlapSize, m_refillSize, m_fftBufferFill,
                          m_movingAverage, m_fixedAverage, m_max, m_wsSpectrum>> ]_vars

\* such a pair of calls has completed for a request outside both ranges
C9_Witness ==
    /\ SameAfterForced
    /\ pcCtl = "idle"
    /\ lastApply.settings.m_fftSize > 4096 /\ lastApply.settings.m_fftOverlap > 100
    /\ rebuilt = {}

\* the first frame transformed since an fftSize change that came mid-frame
FirstFrameAfterResize ==
    /\ epoch.midFrame
    /\ epoch.fillMark = epoch.sizeMark
    /\ epoch.frames = 1

\* what C10 says of configure itself: until samples are taken again the fill pointer is
\* at the new overlapSize, and engine, window and accumulators have the new fftSize
ResizeLeavesConsistent ==
    /\ (streamPos = epoch.sizeMark /\ pcFeed = "idle") => m_fftBufferFill = m_overlapSize
    /\ m_fft.size = m_settings.m_fftSize
    /\ m_window.size = m_settings.m_fftSize
    /\ m_movingAverage.width = m_settings.m_fftSize
    /\ m_fixedAverage.width = m_settings.m_fftSize
    /\ m_max.width = m_settings.m_fftSize
    /\ FirstFrameAfterResize =>
          /\ Len(fftIn.x) = m_settings.m_fftSize
          /\ glSink.frame = lastFrame.n => glSink.size = m_settings.m_fftSize

\* C10 as claimed: after fftSize is reconfigured mid-frame the state is consistent and
\* the next frame has the new fftSize and is built only from samples fed after the
\* reconfiguration.
C10_NextFrameOnlyNewSamples ==
    /\ ResizeLeavesConsistent
    /\ FirstFrameAfterResize =>
          \A i \in 1..Len(fftIn.x) : fftIn.x[i][1] > epoch.sizeMark

\* the engine this pipeline holds
OwnEngine == <<m_settings.m_fftSize, m_fftEngineSequence>>

\* C11: from construction to destruction the pipeline holds exactly one transform engine,
\* the one its handle, size and sequence id name, so the engine is acquired before any
\* use; every release names an engine the pipeline holds, every configure step acquires
\* at most one engine and only after releasing the one held, the engines of other
\* pipelines are never released, and after destruction none of its engines is left.
C11_EngineLifecycle ==
    [][ /\ OtherEngines \subseteq fftFactory
        /\ pcCtl # "destroyed" =>
              /\ m_fft.valid /\ m_fft.size = m_settings.m_fftSize
              /\ OwnEngine \notin OtherEngines
              /\ fftFactory = OtherEngines \cup {OwnEngine}
        /\ fftFactory \ fftFactory' \subseteq {OwnEngine}
        /\ Cardinality(fftFactory' \ fftFactory) <= 1
        /\ Cardinality(fftFactory') <= Cardinality(fftFactory)
        /\ (pcCtl = "locked" /\ pcCtl' = "idle" /\ "release" \in rebuilt') =>
              OwnEngine \in fftFactory
        /\ (pcCtl = "idle" /\ pcCtl' = "destroyed") => OwnEngine \in fftFactory
        /\ pcCtl' = "destroyed" => fftFactory' = OtherEngines ]_vars

\* the pipeline was destroyed after a configure call that swapped its engine for one of
\* a size another pipeline also holds
C11_Witness ==
    /\ pcCtl = "destroyed"
    /\ nCtl >= 1 /\ "release" \in rebuilt
    /\ m_settings.m_fftSize = 64 /\ m_fftEngineSequence = 1
    /\ fftFactory = OtherEngines

\* a step of the feed that transforms (or, raw overload, takes in) one frame
FrameStep == nFrames' = nFrames + 1

\* the resolved averaging amount of the stored settings
AveragingAmount ==
    getAveragingValue(m_settings.m_averagingIndex, m_settings.m_averagingMode)

\* the frame of this step reaches the attached display; nothing reaches a sink
PublishedToDisplay ==
    /\ glSink'.count = glSink.count + 1
    /\ glSink'.frame = nFrames'
NothingPublished == UNCHANGED sinkVars

\* C12: in averaging mode Fixed with amount N, counting the transformed frames from the
\* configure that last resized the accumulators, the N-th, 2N-th, ... frame is published
\* and no other, so one frame is published per N consecutive frames.
C12_FixedPublishesEveryNth ==
    [][ /\ (FrameStep /\ m_settings.m_averagingMode = AvgModeFixed) =>
              IF (epoch.avgFrames + 1) % AveragingAmount = 0
                  THEN PublishedToDisplay ELSE NothingPublished
        /\ m_settings.m_averagingMode = AvgModeFixed =>
              epoch.avgPublished = epoch.avgFrames \div AveragingAmount ]_vars

\* Fixed with amount 2: the second frame since the reset has just been published, the
\* first was not
C12_Witness ==
    /\ m_settings.m_averagingMode = AvgModeFixed /\ AveragingAmount = 2
    /\ epoch.avgFrames = 2 /\ epoch.avgPublished = 1
    /\ glSink.frame = nFrames /\ glSink.count = 1

\* C13: modes None and Moving publish every transformed frame; mode Max with amount N
\* publishes the N-th, 2N-th, ... frame since the accumulators were resized and no other,
\* and a frame that is not published leaves the power array as it was.
C13_PublishedIffReady ==
    [][ FrameStep =>
          /\ m_settings.m_averagingMode \in {AvgModeNone, AvgModeMoving} =>
                PublishedToDisplay
          /\ m_settings.m_averagingMode = AvgModeMax =>
                IF (epoch.avgFrames + 1) % AveragingAmount = 0
                    THEN PublishedToDisplay
                    ELSE NothingPublished /\ UNCHANGED m_powerSpectrum ]_vars

\* Max with amount 2: three frames since the reset, the second published, the third not
C13_Witness ==
    /\ m_settings.m_averagingMode = AvgModeMax /\ AveragingAmount = 2
    /\ epoch.avgFrames = 3 /\ epoch.avgPublished = 1
    /\ glSink.frame = nFrames - 1 /\ glSink.count = 1

\* the step in which applySettings returns
ConfigureStep ==
    /\ pcCtl = "locked" /\ pcCtl' = "idle"
    /\ ctlMsg.type = "MsgConfigureSpectrumVis"

\* an accumulator as resize leaves it
FreshAccumulator(width, amount) == [width |-> width, size |-> amount, avgIndex |-> 0]

\* the frame counter of an accumulator counts only frames of the current epoch in its mode
CountsThisEpoch(acc, mode) ==
    acc.avgIndex = IF m_settings.m_averagingMode = mode
                       THEN epoch.avgFrames % acc.size ELSE 0

\* C14: a configure in which the clamped fftSize, the averaging index or the averaging
\* mode differs from the stored one, or force is set, resizes the three accumulators to
\* the clamped fftSize and the resolved averaging amount (the moving one to at most
\* 1000) with their frame counters at zero, so every counter and every publish counts
\* only frames transformed since that configure.
C14_AccumulatorsResetOnChange ==
    [][ /\ ConfigureStep =>
          LET req == ctlMsg.settings
              size == m_settings'.m_fftSize
              amount == getAveragingValue(req.m_averagingIndex, req.m_averagingMode)
              changed == \/ size # m_settings.m_fftSize
                         \/ req.m_averagingIndex # m_settings.m_averagingIndex
                         \/ req.m_averagingMode # m_settings.m_averagingMode
                         \/ ctlMsg.force
          IN  /\ IsClamped(req.m_fftSize, 64, 4096, size)
              /\ changed =>
                    /\ m_fixedAverage' = FreshAccumulator(size, amount)
                    /\ m_max' = FreshAccumulator(size, amount)
                    /\ m_movingAverage' =
                          FreshAccumulator(size, IF amount > 1000 THEN 1000 ELSE amount)
                    /\ epoch'.avgFrames = 0 /\ epoch'.avgPublished = 0
        /\ CountsThisEpoch(m_fixedAverage, AvgModeFixed)
        /\ CountsThisEpoch(m_max, AvgModeMax)
        /\ CountsThisEpoch(m_movingAverage, AvgModeMoving)
        /\ m_movingAverage.size <= 1000
        /\ (FrameStep /\ glSink' # glSink /\ m_settings.m_averagingMode \in {AvgModeFixed, AvgModeMax})
              => epoch'.avgFrames >= AveragingAmount ]_vars

\* a Fixed cycle was cut short by a change of mode alone, and the first frame after it
\* was not published
C14_Witness ==
    /\ m_settings.m_averagingMode = AvgModeMax
    /\ lastApply.prevSettings.m_averagingMode = AvgModeFixed
    /\ lastApply.prevSettings.m_averagingIndex = m_settings.m_averagingIndex
    /\ ~lastApply.force
    /\ nFrames = 2 /\ epoch.avgFrames = 1 /\ epoch.avgPublished = 0
    /\ glSink.count = 0

\* C15: a frame whose averaging policy is ready is forwarded, as the same frame, to the
\* display sink with the current fftSize exactly if one is attached, and to the network
\* sink with fftSize, centre frequency, sample rate, linear, ssb and usb exactly if its
\* socket is open at that moment; neither delivery depends on the other, and a frame
\* that is not ready reaches no sink.
C15_PublishFanOut ==
    [][ FrameStep =>
          IF frameReady
              THEN /\ glSink' = IF m_glSpectrum
                                    THEN [count |-> glSink.count + 1,
                                          size |-> m_settings.m_fftSize,
                                          frame |-> nFrames']
                                    ELSE glSink
                   /\ wsSink' = IF m_wsSpectrum.opened
                                    THEN [count |-> wsSink.count + 1, frame |-> nFrames',
                                          args |-> <<m_settings.m_fftSize, m_centerFrequency,
                                                     m_sampleRate, m_settings.m_linear,
                                                     m_settings.m_ssb, m_settings.m_usb>>]
                                    ELSE wsSink
              ELSE UNCHANGED sinkVars ]_vars

\* a frame went to the network sink alone, with a centre frequency and sample rate set
\* by an earlier notification
C15_Witness ==
    /\ wsSink.count = 1 /\ glSink.count = 0
    /\ wsSink.frame = nFrames
    /\ wsSink.args = <<1024, 435000000, 96000, FALSE, FALSE, TRUE>>

\* a setter of the FIR stage has just returned
SetterStep ==
    /\ firLast'.n = firLast.n + 1
    /\ firLast'.op \in {"setBuffers", "setSamplerate", "setSize", "setOutRate"}

\* the fields the setter named op assigns; calc adds scale and p
OwnFields(op) ==
    CASE op = "setBuffers" -> {"in", "out"}
      [] op = "setSamplerate" -> {"runrate"}
      [] op = "setSize" -> {"size"}
      [] op = "setOutRate" -> {"cicrate"}

\* C16: from construction to destruction exactly one engine is alive, the one p points
\* to; each setter deletes that engine, changes only its own fields, and builds a new
\* engine from the fields and a newly synthesized impulse response, also when the value
\* set equals the old one; destruction deletes the one live engine; no engine is
\* deleted twice and none is left alive.
C16_OneLiveEngine ==
    [][ /\ fir.p # 0 =>
              /\ ~firHeap.doubleFree /\ ~firHeap'.doubleFree
              /\ firLast.op # "~ICFIR" => DOMAIN firHeap.live = {fir.p}
              /\ firLast'.op = "~ICFIR" =>
                    /\ DOMAIN firHeap'.live = {}
                    /\ firHeap'.deleted = firHeap'.next - 1
        /\ SetterStep =>
              /\ fir'.p # fir.p /\ fir'.p \notin DOMAIN firHeap.live
              /\ DOMAIN firHeap'.live = {fir'.p}
              /\ firHeap'.deleted = firHeap.deleted + 1
              /\ \A field \in DOMAIN fir \ (OwnFields(firLast'.op) \cup {"scale", "p"}) :
                    fir'[field] = fir[field]
              /\ firHeap'.live[fir'.p] =
                    FIRCORE(fir'.size, fir'.in, fir'.out, fir'.mp,
                            icfir_impulse(impulseArgs(fir'))) ]_vars

\* setSize with the size the stage already had (2, from construction) has replaced
\* engine 1 by engine 2
C16_Witness ==
    /\ firLast.op = "setSize" /\ firLast.n = 1 /\ fir.size = 2
    /\ fir.p = 2 /\ DOMAIN firHeap.live = {2} /\ firHeap.deleted = 1

\* C17: execute with the run flag set runs the engine; with it clear and in # out it
\* copies exactly 2 * size floats from in to out and leaves the rest of out alone; with
\* it clear and in = out it changes nothing; the stage's fields and engine never change.
C17_ExecuteOrBypass ==
    [][ (firLast'.op = "execute" /\ firLast'.n = firLast.n + 1) =>
          /\ fir' = fir /\ firHeap' = firHeap
          /\ \A b \in FirBuffers \ {fir.out} : firMem'[b] = firMem[b]
          /\ \A k \in 1..FirBufLen :
                firMem'[fir.out][k] =
                    IF k > 2 * fir.size THEN firMem[fir.out][k]
                    ELSE IF fir.run # 0 THEN [filtered |-> firMem[fir.in][k]]
                    ELSE firMem[fir.in][k] ]_vars

\* a bypass of 3 complex samples from buffer a to buffer b: six floats copied, the
\* seventh untouched
C17_Witness ==
    /\ firLast.op = "execute" /\ fir.p # 0
    /\ fir.run = 0 /\ fir.size = 3 /\ fir.in = "a" /\ fir.out = "b"
    /\ firMem["b"][6] = <<"a", 5>> /\ firMem["b"][7] = <<"b", 6>>

\* C18: the impulse response handed to the engine has exactly 2 * N elements, N the
\* requested order, for both transition types and every rate, cutoff and size.
C18_ImpulseLength ==
    (fir.p # 0 /\ fir.p \in DOMAIN firHeap.live) =>
        /\ DOMAIN firHeap.live[fir.p].impulse = 1..(2 * fir.nc)
        /\ DOMAIN firLast.A = 0..(fir.nc - 1)

\* an odd order, raised-cosine transition, after a change of the output rate
C18_Witness ==
    /\ fir.p # 0 /\ firLast.op = "setOutRate"
    /\ fir.nc = 5 /\ fir.xtype = 1 /\ fir.cicrate = 16
    /\ DOMAIN firHeap.live[fir.p].impulse = 1..10

\* C19 as claimed: for even N the magnitude array satisfies A[N-k] = A[k], k = 1..N-1.
C19_MirrorAboutZero ==
    (fir.p # 0 /\ fir.nc % 2 = 0) =>
        \A k \in 1..(fir.nc - 1) : firLast.A[fir.nc - k] = firLast.A[k]

\* C19 amended: for even N the magnitude array is a palindrome, A[N-1-k] = A[k] for
\* k = 0..N-1: A[N-1] = A[0], A[N-2] = A[1], and so on.
C19_MirrorPalindrome ==
    (fir.p # 0 /\ fir.nc % 2 = 0) =>
        \A k \in 0..(fir.nc - 1) : firLast.A[fir.nc - 1 - k] = firLast.A[k]

\* order 6, power-law transition, three different unique samples mirrored
C19_Witness ==
    /\ fir.p # 0 /\ fir.nc = 6 /\ fir.xtype = 0
    /\ firLast.A[5] = firLast.A[0] /\ firLast.A[4] = firLast.A[1]
    /\ firLast.A[3] = firLast.A[2]
    /\ Cardinality({firLast.A[k] : k \in 0..2}) = 3

\* an iteration of feed's loop that transformed a frame and stays in the loop
LoopIteration == pcFeed = "loop" /\ pcFeed' = "loop" /\ nFrames' = nFrames + 1

\* what decides the next iteration of the loop: input left, fill pointer, refill size
LoopControl == <<feedArgs.begin, feedArgs.end, m_fftBufferFill, m_refillSize>>

\* C20: a streaming feed runs to completion under every configuration reachable through
\* configure: its loop consumes the input in finitely many iterations and the call
\* returns with the lock released.  The loop being deterministic in its control state,
\* no iteration may leave that state as it found it.
C20_FeedLoopProgresses ==
    [][LoopIteration => LoopControl' # LoopControl]_vars

\* C21: in averaging mode None the power array of a frame is, with positiveOnly clear,
\* the FFT-shifted frame, out[i] = P(X[i + half]) and out[i + half] = P(X[i]) for
\* i < half = fftSize / 2, and with positiveOnly set the bins 0..half-1 each written
\* twice, out[2i] = out[2i + 1] = P(X[i]).
C21_FrequencyReorder ==
    [][ (FrameStep /\ m_settings.m_averagingMode = AvgModeNone) =>
          LET half == m_settings.m_fftSize \div 2
              n == nFrames'
          IN  \A i \in 0..(half - 1) :
                IF feedArgs.positiveOnly
                    THEN /\ m_powerSpectrum'[2 * i] = <<n, i>>
                         /\ m_powerSpectrum'[2 * i + 1] = <<n, i>>
                    ELSE /\ m_powerSpectrum'[i] = <<n, i + half>>
                         /\ m_powerSpectrum'[i + half] = <<n, i>> ]_vars

\* a 64-bin frame fed with positiveOnly set has reached the display: bin 31 is in the
\* last two elements, bin 0 in the first two
C21_Witness ==
    /\ m_settings.m_averagingMode = AvgModeNone /\ m_settings.m_fftSize = 64
    /\ nFrames >= 1 /\ glSink.frame = nFrames /\ feedArgs.positiveOnly
    /\ m_powerSpectrum[0] = <<nFrames, 0>> /\ m_powerSpectrum[1] = <<nFrames, 0>>
    /\ m_powerSpectrum[62] = <<nFrames, 31>> /\ m_powerSpectrum[63] = <<nFrames, 31>>

\* C22: when the acquisition of a transform engine has failed (null handle), no frame
\* is transformed through the null handle and nothing is published.
C22_NullEngineNeverUsed ==
    /\ lastFrame.engine
    /\ ~m_fft.valid => (glSink.count = 0 /\ wsSink.count = 0)

\* C23: the magnitude computation of icfir_impulse never divides by zero: the CIC ratio
\* of a sample is replaced by 1 where fn == 0, and the peak-gain normalisation takes its
\* limit where ft == 0.
C23_NoDivisionByZero ==
    fir.p # 0 => firLast.zeroDivisors = {}

\* C24: with the raised-cosine transition (xtype 1), among the unique samples those
\* below c_samps carry the in-band magnitude, those from c_samps to c_samps + x_samps
\* carry the last in-band magnitude times the taper entry for offset i - c_samps (an
\* index within 0..x_samps, the first entry being 1), and those above c_samps + x_samps
\* are exactly zero.
C24_RaisedCosineRegions ==
    (fir.p # 0 /\ fir.xtype = 1) =>
        LET q == impulseArgs(fir)
            A == firLast.A
            c == c_samps(q)
            x == x_samps(q)
            last == IF c >= 1 THEN A[c - 1] ELSE ZeroMag
        IN  \A i \in 0..(u_samps(q.N) - 1) :
              /\ i < c => A[i].kind = "cic" /\ A[i].ri2 = riTwice(q.N, i)
              /\ (c <= i /\ i <= c + x) =>
                    /\ i - c \in 0..x
                    /\ A[i] = IF i = c \/ last = ZeroMag THEN last
                              ELSE [kind |-> "taper", of |-> last, k |-> i - c,
                                    x_samps |-> x]
              /\ i > c + x => A[i] = ZeroMag

\* order 5 at run rate 16: one in-band sample, one transition sample carrying the
\* in-band magnitude times the first taper entry, one sample beyond the transition
C24_Witness ==
    /\ fir.p # 0 /\ fir.xtype = 1 /\ fir.nc = 5 /\ fir.runrate = 16 /\ fir.cutoff = 1
    /\ firLast.A[0].kind = "cic" /\ firLast.A[1] = firLast.A[0]
    /\ firLast.A[2] = ZeroMag

\* C25 as claimed: the scale passed into impulse synthesis is 1 / (2 N), N the requested
\* filter length (coefficient count).
C25_ScaleFromOrder ==
    fir.p # 0 => impulseArgs(fir).scale = <<1, 2 * fir.nc>>

\* C25 amended: the scale passed into impulse synthesis is 1 / (2 size), size the number
\* of complex samples of an input buffer, whatever the filter length.
C25_ScaleFromSize ==
    fir.p # 0 => impulseArgs(fir).scale = <<1, 2 * fir.size>>

\* order 5 with buffers of 3 complex samples, after setSize: the scale is 1/6, not 1/10
C25_Witness ==
    /\ fir.p # 0 /\ firLast.op = "setSize" /\ fir.nc = 5 /\ fir.size = 3
    /\ impulseArgs(fir).scale = <<1, 6>>

\* C26: in every state reached by configure and feed calls the staging buffer satisfies
\* 0 <= fill pointer <= refillSize <= fftSize, so the samples still needed,
\* refillSize - fill, never go negative, and no write lands outside the buffer.
C26_StagingBounds ==
    /\ 0 <= m_fftBufferFill
    /\ m_fftBufferFill <= m_refillSize
    /\ m_refillSize <= m_settings.m_fftSize
    /\ ~heapOverrun

\* C27: in averaging mode None every element 0..fftSize-1 of a published power array is
\* written from the bins of the frame being published, for every size the clamp admits,
\* odd sizes included, and both values of positiveOnly.
C27_PublishedArrayIsFresh ==
    [][ (FrameStep /\ m_settings.m_averagingMode = AvgModeNone /\ PublishedToDisplay) =>
          \A j \in 0..(glSink'.size - 1) :
              /\ j \in DOMAIN m_powerSpectrum'
              /\ m_powerSpectrum'[j][1] = nFrames' ]_vars

\* the request names the stored size, window, overlap, averaging and network fields
SameFramingFields(req, stored) ==
    /\ req.m_fftSize = stored.m_fftSize
    /\ req.m_fftWindow = stored.m_fftWindow
    /\ req.m_fftOverlap = stored.m_fftOverlap
    /\ req.m_averagingIndex = stored.m_averagingIndex
    /\ req.m_averagingMode = stored.m_averagingMode
    /\ req.m_wsSpectrumAddress = stored.m_wsSpectrumAddress
    /\ req.m_wsSpectrumPort = stored.m_wsSpectrumPort

\* C28: a configure without force that changes only other fields (linear, ssb, usb,
\* refLevel) rebuilds nothing: engine handle and sequence id, window, overlapSize,
\* refillSize, the staging buffer and its fill pointer and the three accumulators are
\* as before, so a partial frame and a partial Fixed or Max cycle go on; the new
\* settings are stored.
C28_DisplayFieldsRebuildNothing ==
    [][ (ConfigureStep /\ ~ctlMsg.force /\ SameFramingFields(ctlMsg.settings, m_settings)) =>
          /\ rebuilt' = {}
          /\ UNCHANGED <<m_fft, m_fftEngineSequence, fftFactory, m_ofs, m_powFFTDiv,
                         m_window, m_overlapSize, m_refillSize, m_fftBufferFill,
                         m_fftBuffer, m_movingAverage, m_fixedAverage, m_max,
                         m_wsSpectrum>>
          /\ epoch'.avgFrames = epoch.avgFrames /\ epoch'.frames = epoch.frames
          /\ m_settings' = ctlMsg.settings ]_vars

\* half a frame staged and one frame of a Fixed cycle of two accumulated, then linear,
\* ssb, usb and refLevel changed: nothing was rebuilt
C28_Witness ==
    /\ pcCtl = "idle" /\ nCtl = 2 /\ ~lastApply.force /\ rebuilt = {}
    /\ m_settings.m_linear /\ m_settings.m_ssb /\ m_settings.m_refLevel = -10
    /\ ~lastApply.prevSettings.m_linear
    /\ m_settings.m_averagingMode = AvgModeFixed
    /\ m_fixedAverage.avgIndex = 1 /\ m_fftBufferFill = 32 /\ nFrames = 1

\* C29: handleADSB never stores past the end of beastBinary: for a 14-byte frame and any
\* timestamp, signal strength and data bytes, escape values included, it stores at most
\* 2+6*2+1*2+14*2 bytes.
C29_BeastBufferBounds ==
    adsbLast.op = "handleADSB" =>
        /\ Len(adsbLast.stored) <= beastBinarySize
        /\ adsbLast.status = "sent"

\* C30: the signal strength byte is the correlation saturated to [1, 255]: 255 above
\* 255, 1 below 1, the truncated correlation otherwise.
C30_SignalStrengthSaturates ==
    adsbLast.op = "handleADSB" =>
        adsbLast.signalStrength =
            IF adsbLast.correlation > 2 * 255 THEN 255
            ELSE IF adsbLast.correlation < 2 * 1 THEN 1
            ELSE adsbLast.correlation \div 2

====
